---- MODULE Spec2Model ----
(***************************************************************************)
(* Helicone AI SDK provider: the streaming state machine of                *)
(* HeliconeLanguageModel.doStream (index-keyed tool-call accumulators).    *)
(*                                                                         *)
(* The gateway's response body is a sequence of lines.  Each step of the   *)
(* model is one turn of the line loop of doStream's start() callback, or   *)
(* the end of the body (reader.read() returning done), or a failed read.   *)
(* Argument text and text content are sequences of one-character strings,  *)
(* so that concatenation and JSON parsing are computed, not assumed.       *)
(***************************************************************************)
EXTENDS Integers, Sequences, FiniteSets, TLC

\* ---------------------------------------------------------------- bounds
\* Lines of the response body processed in one stream.
MaxLines == 3
\* Highest tool-call position (wire index) a fragment may carry.
MaxIndex == 1

\* Turns of a conversation passed to one call.
MaxTurns == 2
\* Parts of one turn of a conversation.
MaxParts == 2
\* ------------------------------------------------------------ wire values
\* JavaScript undefined / null / absent field.
NoVal == "undefined"
\* An absent numeric field of a usage object.
Absent == -1

Positions == 0..MaxIndex

\* The id the gateway assigns to the tool call at position p.
IdOf(p) == IF p = 0 THEN "call_0" ELSE IF p = 1 THEN "call_1" ELSE "call_n"
\* The function name of the tool call at position p.
NameOf(p) == IF p = 0 THEN "getWeather" ELSE "calculate"

\* JavaScript truthiness of a string-or-undefined value.
Truthy(x) == x # NoVal /\ x # ""

\* ------------------------------------------------------------ JSON.parse
\* Argument text is written over the alphabet "{", "}", "a", where "a"
\* stands for one member ("k":v) of an object.  The JSON documents of this
\* alphabet are "{" followed by members and a closing "}".
RECURSIVE AllMembers(_)
AllMembers(s) ==
  IF s = <<>> THEN TRUE
  ELSE Head(s) = "a" /\ AllMembers(Tail(s))

JsonNone == [kind |-> "none", n |-> 0]
EmptyObject == [kind |-> "object", n |-> 0]

\* Whether JSON.parse(s) returns (TRUE) or throws (FALSE).
JsonParses(s) ==
  /\ Len(s) >= 2
  /\ s[1] = "{"
  /\ s[Len(s)] = "}"
  /\ AllMembers(SubSeq(s, 2, Len(s) - 1))

\* The value JSON.parse(s) returns when it does not throw.
JsonValue(s) == [kind |-> "object", n |-> Len(s) - 2]

\* r with its upper-case letters in lower case (the spellings of FinishReasons).
LowerCase(r) ==
  CASE r \in {"STOP", "Stop"} -> "stop"
    [] r = "EOS" -> "eos"
    [] r = "LENGTH" -> "length"
    [] r = "Max_Tokens" -> "max_tokens"
    [] r = "CONTENT_FILTER" -> "content_filter"
    [] r = "TOOL_CALLS" -> "tool_calls"
    [] r = "Function_Call" -> "function_call"
    [] OTHER -> r

mapHeliconeFinishReason_IgnoringCase(r) ==
  CASE LowerCase(r) \in {"stop", "eos"} -> "stop"
    [] LowerCase(r) \in {"length", "max_tokens"} -> "length"
    [] LowerCase(r) = "content_filter" -> "content-filter"
    [] LowerCase(r) \in {"tool_calls", "function_call"} -> "tool-calls"
    [] OTHER -> "other"

\* ------------------------------------------------------ finish reasons
mapHeliconeFinishReason(r) ==
  CASE r = "stop" -> "stop"
    [] r = "length" -> "length"
    [] r = "max_tokens" -> "length"
    [] r = "content_filter" -> "content-filter"
    [] r = "tool_calls" -> "tool-calls"
    [] r = "function_call" -> "tool-calls"
    [] r = "eos" -> "stop"
    [] OTHER -> "other"

\* ---------------------------------------------------------------- events
ZeroUsage == [inputTokens |-> 0, outputTokens |-> 0, totalTokens |-> 0]

\* One LanguageModelV2StreamPart.  pos and at are history fields: the
\* tool-call position the event belongs to (-1 when none) and the number of
\* the body line during whose processing it was enqueued.
Event(type, id, toolName, delta, input, pos, at) ==
  [type |-> type, id |-> id, toolName |-> toolName, delta |-> delta,
   input |-> input, usage |-> ZeroUsage, finishReason |-> NoVal,
   pos |-> pos, at |-> at]

ToolInputStart(c, p, k) == Event("tool-input-start", c.id, c.name, <<>>, JsonNone, p, k)
ToolInputDelta(c, d, p, k) == Event("tool-input-delta", c.id, NoVal, d, JsonNone, p, k)
ToolInputEnd(c, p, k) == Event("tool-input-end", c.id, NoVal, <<>>, JsonNone, p, k)
ToolCall(c, input, p, k) == Event("tool-call", c.id, c.name, <<>>, input, p, k)
TextDelta(d, k) == Event("text-delta", "text-0", NoVal, d, JsonNone, -1, k)
Finish(u, r, k) ==
  [type |-> "finish", id |-> NoVal, toolName |-> NoVal, delta |-> <<>>,
   input |-> JsonNone, usage |-> u, finishReason |-> r, pos |-> -1, at |-> k]

\* ------------------------------------------------------------ accumulators
\* A slot of the toolCalls array: null, or one tool call being accumulated.
NullCall ==
  [live |-> FALSE, id |-> NoVal, name |-> "", arguments |-> <<>>,
   inputStarted |-> FALSE, sent |-> FALSE]

\* toolCalls[i] of the code is toolCalls[i + 1] here.
Slot(calls, i) == IF i + 1 <= Len(calls) THEN calls[i + 1] ELSE NullCall

PutSlot_Appending(calls, i, c) ==
  IF i < Len(calls) THEN [calls EXCEPT ![i + 1] = c] ELSE Append(calls, c)

\* while (toolCalls.length <= index) toolCalls.push(null); toolCalls[index] = c
RECURSIVE PutSlot(_, _, _)
PutSlot(calls, i, c) ==
  IF Len(calls) <= i THEN PutSlot(Append(calls, NullCall), i, c)
  ELSE [calls EXCEPT ![i + 1] = c]

\* -------------------------------------------------- the per-line handler
\* The call-scoped state of one doStream call, as a record S:
\*   usage, actualFinishReason, toolCalls, out (the controller's queue).

\* parsedInput of the finish-signal path: the parsed arguments, {} when the
\* text is empty or JSON.parse throws.
FallbackInput(arguments) ==
  IF arguments # <<>> /\ JsonParses(arguments) THEN JsonValue(arguments)
  ELSE EmptyObject

ShouldSend_IgnoringSent(c) == c.live /\ c.inputStarted

\* if (toolCall && !toolCall.sent && toolCall.inputStarted)
ShouldSend(c) == c.live /\ ~c.sent /\ c.inputStarted

\* for (const toolCall of toolCalls): send the tool-call event of every
\* started call that was not sent yet (slots i .. length-1).
RECURSIVE SendStartedCalls(_, _, _, _)
SendStartedCalls(calls, out, i, k) ==
  IF i >= Len(calls) THEN [toolCalls |-> calls, out |-> out]
  ELSE LET c == calls[i + 1] IN
    IF ShouldSend(c)
      THEN SendStartedCalls([calls EXCEPT ![i + 1].sent = TRUE],
                            Append(out, ToolCall(c, FallbackInput(c.arguments), i, k)),
                            i + 1, k)
      ELSE SendStartedCalls(calls, out, i + 1, k)

FinishSignal_EnqueuesFinish(S, r, k) ==
  LET sent == SendStartedCalls(S.toolCalls, S.out, 0, k) IN
  [S EXCEPT !.toolCalls = sent.toolCalls,
            !.out = Append(sent.out, Finish(S.usage, mapHeliconeFinishReason(r), k)),
            !.actualFinishReason = mapHeliconeFinishReason(r)]

FinishSignal_ReasonOnly(S, r, k) ==
  [S EXCEPT !.actualFinishReason = mapHeliconeFinishReason(r)]

FinishSignal_FirstReasonWins(S, r, k) ==
  LET sent == SendStartedCalls(S.toolCalls, S.out, 0, k) IN
  [S EXCEPT !.toolCalls = sent.toolCalls,
            !.out = sent.out,
            !.actualFinishReason =
               IF S.actualFinishReason = "stop" THEN mapHeliconeFinishReason(r) ELSE @]

\* if (choice.finish_reason) { ... }
FinishSignal(S, r, k) ==
  LET sent == SendStartedCalls(S.toolCalls, S.out, 0, k) IN
  [S EXCEPT !.toolCalls = sent.toolCalls,
            !.out = sent.out,
            !.actualFinishReason = mapHeliconeFinishReason(r)]

Complete_WithoutInputEnd(c, input, p, k) ==
  [call |-> [c EXCEPT !.sent = TRUE], evs |-> <<ToolCall(c, input, p, k)>>]

\* tool-input-end followed by tool-call, and the call marked sent.
Complete(c, input, p, k) ==
  [call |-> [c EXCEPT !.sent = TRUE],
   evs |-> <<ToolInputEnd(c, p, k), ToolCall(c, input, p, k)>>]

EmptyArguments_OnlyWhenMissing(tc) == ~tc.hasArgs

\* toolCall.function?.arguments is undefined or ''
EmptyArguments(tc) == ~tc.hasArgs \/ tc.args = <<>>

Accumulate_Replacing(arguments, more) == more

\* existingCall.function.arguments += toolCall.function.arguments
Accumulate(arguments, more) == arguments \o more

\* existingCall = { id, type, function: { name, arguments }, inputStarted, sent }
CreateCall(tc) ==
  [live |-> TRUE,
   id |-> tc.id,
   name |-> IF Truthy(tc.name) THEN tc.name ELSE "",
   arguments |-> IF tc.hasArgs THEN tc.args ELSE <<>>,
   inputStarted |-> FALSE,
   sent |-> FALSE]

\* if (existingCall.id && existingCall.function.name) { ... }: the call c
\* (already marked started) is announced, and completed when the fragment
\* has no arguments or arguments that parse.
AnnounceNew(c, tc, p, k) ==
  IF EmptyArguments(tc)
    THEN [call |-> Complete(c, EmptyObject, p, k).call,
          evs |-> <<ToolInputStart(c, p, k)>> \o Complete(c, EmptyObject, p, k).evs]
  ELSE IF JsonParses(c.arguments)
    THEN [call |-> Complete(c, JsonValue(c.arguments), p, k).call,
          evs |-> <<ToolInputStart(c, p, k), ToolInputDelta(c, tc.args, p, k)>>
                  \o Complete(c, JsonValue(c.arguments), p, k).evs]
  ELSE [call |-> c,
        evs |-> <<ToolInputStart(c, p, k), ToolInputDelta(c, tc.args, p, k)>>]

\* The slot of position p replaced by R.call and R.evs enqueued.
Store(S, p, R) ==
  [S EXCEPT !.toolCalls = PutSlot(S.toolCalls, p, R.call),
            !.out = S.out \o R.evs]

\* The new call announced as soon as it has a name.
NewToolCall_AnnouncingWithoutId(S, tc, k) ==
  IF Truthy(tc.name)
    THEN Store(S, tc.index,
               AnnounceNew([CreateCall(tc) EXCEPT !.inputStarted = TRUE], tc, tc.index, k))
  ELSE Store(S, tc.index, [call |-> CreateCall(tc), evs |-> <<>>])

\* if (!existingCall) { ... }: the first fragment seen at position tc.index.
NewToolCall(S, tc, k) ==
  IF Truthy(tc.id) /\ Truthy(tc.name)
    THEN Store(S, tc.index,
               AnnounceNew([CreateCall(tc) EXCEPT !.inputStarted = TRUE], tc, tc.index, k))
  ELSE Store(S, tc.index, [call |-> CreateCall(tc), evs |-> <<>>])

\* if (toolCall.id && !existingCall.id) existingCall.id = toolCall.id
SetId(c, tc) ==
  IF Truthy(tc.id) /\ ~Truthy(c.id) THEN [c EXCEPT !.id = tc.id] ELSE c

\* if (toolCall.function?.name && !existingCall.function.name) { ... }:
\* the name is stored, and tool-input-start sent when the id is known.
SetName(R, tc, p, k) ==
  IF ~(Truthy(tc.name) /\ R.call.name = "") THEN R
  ELSE IF Truthy(R.call.id) /\ ~R.call.inputStarted
    THEN [call |-> [R.call EXCEPT !.name = tc.name, !.inputStarted = TRUE],
          evs |-> R.evs \o <<ToolInputStart([R.call EXCEPT !.name = tc.name], p, k)>>]
  ELSE [R EXCEPT !.call.name = tc.name]

\* The guard without !existingCall.sent.
DeltaAndParse_AfterSent(R, tc, p, k) ==
  IF ~(Truthy(R.call.id) /\ R.call.inputStarted) THEN R
  ELSE IF JsonParses(R.call.arguments)
    THEN [call |-> Complete(R.call, JsonValue(R.call.arguments), p, k).call,
          evs |-> R.evs \o <<ToolInputDelta(R.call, tc.args, p, k)>>
                  \o Complete(R.call, JsonValue(R.call.arguments), p, k).evs]
  ELSE [R EXCEPT !.evs = R.evs \o <<ToolInputDelta(R.call, tc.args, p, k)>>]

\* if (existingCall.id && existingCall.inputStarted && !existingCall.sent)
\* { ... }: the delta, and the completion when the accumulated text parses.
DeltaAndParse(R, tc, p, k) ==
  IF ~(Truthy(R.call.id) /\ R.call.inputStarted /\ ~R.call.sent) THEN R
  ELSE IF JsonParses(R.call.arguments)
    THEN [call |-> Complete(R.call, JsonValue(R.call.arguments), p, k).call,
          evs |-> R.evs \o <<ToolInputDelta(R.call, tc.args, p, k)>>
                  \o Complete(R.call, JsonValue(R.call.arguments), p, k).evs]
  ELSE [R EXCEPT !.evs = R.evs \o <<ToolInputDelta(R.call, tc.args, p, k)>>]

\* if (toolCall.function?.arguments) { ... }
AddArguments(R, tc, p, k) ==
  IF ~(tc.hasArgs /\ tc.args # <<>>) THEN R
  ELSE DeltaAndParse([R EXCEPT !.call.arguments = Accumulate(R.call.arguments, tc.args)],
                     tc, p, k)

\* else { ... }: a later fragment at a position that has an accumulator.
ExistingToolCall(S, tc, k) ==
  Store(S, tc.index,
        AddArguments(SetName([call |-> SetId(Slot(S.toolCalls, tc.index), tc),
                              evs |-> <<>>],
                             tc, tc.index, k),
                     tc, tc.index, k))

\* for (const toolCall of delta.tool_calls) { ... }
RECURSIVE ToolCallDeltas(_, _, _)
ToolCallDeltas(S, tcs, k) ==
  IF tcs = <<>> THEN S
  ELSE LET tc == Head(tcs)
           S1 == IF Slot(S.toolCalls, tc.index).live
                   THEN ExistingToolCall(S, tc, k)
                   ELSE NewToolCall(S, tc, k)
       IN ToolCallDeltas(S1, Tail(tcs), k)

\* x || 0 on a numeric field of the wire usage object.
OrZero(x) == IF x = Absent THEN 0 ELSE x

\* if (parsed.usage) { usage.inputTokens = ...; ... }
UpdateUsage(S, u) ==
  [S EXCEPT !.usage = [inputTokens |-> OrZero(u.prompt_tokens),
                       outputTokens |-> OrZero(u.completion_tokens),
                       totalTokens |-> OrZero(u.total_tokens)]]

\* Text coalesced into the preceding text-delta instead of enqueued.
TextContent_Coalescing(S, content, k) ==
  IF content = <<>> THEN S
  ELSE IF S.out # <<>> /\ S.out[Len(S.out)].type = "text-delta"
       THEN [S EXCEPT !.out[Len(S.out)].delta = @ \o content]
       ELSE [S EXCEPT !.out = Append(S.out, TextDelta(content, k))]
\* if (delta.content) enqueue text-delta
TextContent(S, content, k) ==
  IF content # <<>> THEN [S EXCEPT !.out = Append(S.out, TextDelta(content, k))]
  ELSE S

ProcessFrame_UsageBeforeChoice(S, f, k) ==
  LET S0 == IF f.usage.has THEN UpdateUsage(S, f.usage) ELSE S IN
  IF ~f.hasChoice THEN S0
  ELSE LET S1 == IF Truthy(f.finish_reason) THEN FinishSignal(S0, f.finish_reason, k)
                 ELSE S0
       IN IF ~f.hasDelta THEN S1
          ELSE ToolCallDeltas(TextContent(S1, f.content, k), f.tool_calls, k)

\* The body of the try block run on one parsed data line f (numbered k).
ProcessFrame(S, f, k) ==
  IF ~f.hasChoice THEN S
  ELSE LET S1 == IF Truthy(f.finish_reason) THEN FinishSignal(S, f.finish_reason, k)
                 ELSE S
       IN IF ~f.hasDelta THEN S1
          ELSE LET S2 == TextContent(S1, f.content, k)
                   S3 == ToolCallDeltas(S2, f.tool_calls, k)
               IN IF f.usage.has THEN UpdateUsage(S3, f.usage) ELSE S3

\* ------------------------------------------------- what the gateway sends
NoUsage == [has |-> FALSE, prompt_tokens |-> Absent, completion_tokens |-> Absent,
            total_tokens |-> Absent]
WireUsage(p, c, t) == [has |-> TRUE, prompt_tokens |-> p, completion_tokens |-> c,
                       total_tokens |-> t]
\* Cumulative usage snapshots; their sum differs from each of them.
UsageA == WireUsage(5, 2, 7)
UsageB == WireUsage(5, 4, 9)

\* One entry of delta.tool_calls.
Frag(p, id, name, hasArgs, args) ==
  [index |-> p, id |-> id, name |-> name, hasArgs |-> hasArgs, args |-> args]

\* One parsed data line: {choices:[{delta:{content, tool_calls}, finish_reason}], usage}.
Frame(hasChoice, fr, hasDelta, content, tcs, u) ==
  [kind |-> "frame", hasChoice |-> hasChoice, finish_reason |-> fr,
   hasDelta |-> hasDelta, content |-> content, tool_calls |-> tcs, usage |-> u]

\* A body line that is not a frame: kind is "other" (no "data: " prefix),
\* "done" (the [DONE] sentinel) or "bad" (JSON.parse of the payload throws).
PlainLine(kind) ==
  [kind |-> kind, hasChoice |-> FALSE, finish_reason |-> NoVal,
   hasDelta |-> FALSE, content |-> <<>>, tool_calls |-> <<>>, usage |-> NoUsage]

\* Fragments that open a tool call: id, name and absent, empty, partial or
\* complete argument text.
Openers(p) ==
  {Frag(p, IdOf(p), NameOf(p), FALSE, <<>>)} \cup
  {Frag(p, IdOf(p), NameOf(p), TRUE, a) : a \in {<<>>, <<"{">>, <<"{", "}">>}}
\* Fragments that carry only the index and more argument text.
Continuations(p) == {Frag(p, NoVal, NoVal, TRUE, a) : a \in {<<"a">>, <<"}">>}}
\* Fragments that carry the id alone or the name alone.
Headers(p) ==
  {Frag(p, IdOf(p), NoVal, FALSE, <<>>), Frag(p, NoVal, NameOf(p), FALSE, <<>>)}

\* Every kind of fragment at position 0; at the other positions, which the
\* code treats alike, a call that opens with a prefix or whole, and its
\* closing continuation.
FragmentsOf(p) ==
  IF p = 0 THEN Openers(p) \cup Continuations(p) \cup Headers(p)
  ELSE {Frag(p, IdOf(p), NameOf(p), TRUE, <<"{">>),
        Frag(p, IdOf(p), NameOf(p), TRUE, <<"{", "}">>),
        Frag(p, NoVal, NoVal, TRUE, <<"}">>)}

Fragments == UNION {FragmentsOf(p) : p \in Positions}

ToolFrames == {Frame(TRUE, NoVal, TRUE, <<>>, <<tc>>, NoUsage) : tc \in Fragments}

OtherFrames ==
  { Frame(TRUE, NoVal, TRUE, <<"h">>, <<>>, NoUsage),         \* text
    Frame(TRUE, "tool_calls", TRUE, <<>>, <<>>, NoUsage),     \* finish signal
    Frame(TRUE, "tool_calls", TRUE, <<>>, <<>>, UsageB),      \* finish signal, usage
    Frame(TRUE, "length", FALSE, <<>>, <<>>, UsageA),         \* finish, no delta, usage
    Frame(TRUE, NoVal, TRUE, <<>>, <<>>, UsageA),             \* usage beside an empty delta
    Frame(FALSE, NoVal, FALSE, <<>>, <<>>, UsageB),           \* usage, choices: []
    Frame(TRUE, "tool_calls", TRUE, <<>>,
          <<Frag(0, NoVal, NoVal, TRUE, <<"}">>)>>, NoUsage), \* last fragment with the finish signal
    Frame(TRUE, NoVal, TRUE, <<>>,
          <<Frag(0, IdOf(0), NameOf(0), TRUE, <<"{">>),
            Frag(MaxIndex, IdOf(MaxIndex), NameOf(MaxIndex), TRUE, <<"{">>)>>, NoUsage) }

Frames == ToolFrames \cup OtherFrames

\* =================================================== the request of a call
\* ----------------------------------------------------- extraBody objects
\* The keys of helicone.properties the model distinguishes.
PropertyKeys == {"env", "team"}
\* The extraBody fields other than helicone and the prompt parameters.
OtherKeys == {"custom", "model", "stream"}
NoOther == [k \in OtherKeys |-> NoVal]

\* The helicone object of an extraBody; NoVal marks a missing field and
\* tags is the array (empty when missing).
Helicone(sessionId, userId, properties, tags, cache) ==
  [sessionId |-> sessionId, userId |-> userId, properties |-> properties,
   tags |-> tags, cache |-> cache]
NoProperties == [k \in PropertyKeys |-> NoVal]
NoHelicone == Helicone(NoVal, NoVal, NoProperties, <<>>, NoVal)

\* A HeliconeExtraBody object: keys are its own properties, the other
\* fields their values (of missing keys: NoVal, NoHelicone).
EmptyExtraBody ==
  [keys |-> {}, helicone |-> NoHelicone, prompt_id |-> NoVal, inputs |-> NoVal,
   environment |-> NoVal, other |-> NoOther]
WithHelicone(h) == [EmptyExtraBody EXCEPT !.keys = {"helicone"}, !.helicone = h]
WithOther(k, v) == [EmptyExtraBody EXCEPT !.keys = {k}, !.other[k] = v]

\* { ...a, ...b }: every own property of b replaces the property of a.
Spread(a, b) ==
  [keys |-> a.keys \cup b.keys,
   helicone |-> IF "helicone" \in b.keys THEN b.helicone ELSE a.helicone,
   prompt_id |-> IF "prompt_id" \in b.keys THEN b.prompt_id ELSE a.prompt_id,
   inputs |-> IF "inputs" \in b.keys THEN b.inputs ELSE a.inputs,
   environment |-> IF "environment" \in b.keys THEN b.environment ELSE a.environment,
   other |-> [k \in OtherKeys |-> IF k \in b.keys THEN b.other[k] ELSE a.other[k]]]

\* The settings argument of languageModel(modelId, settings).
ModelSettings(promptId, inputs, environment, extraBody) ==
  [promptId |-> promptId, inputs |-> inputs, environment |-> environment,
   extraBody |-> extraBody]

\* { prompt_id, ...(inputs && { inputs }), ...(environment && { environment }) }
PromptParameters(settings) ==
  [EmptyExtraBody EXCEPT
     !.keys = {"prompt_id"}
              \cup (IF Truthy(settings.inputs) THEN {"inputs"} ELSE {})
              \cup (IF Truthy(settings.environment) THEN {"environment"} ELSE {}),
     !.prompt_id = settings.promptId,
     !.inputs = IF Truthy(settings.inputs) THEN settings.inputs ELSE NoVal,
     !.environment = IF Truthy(settings.environment) THEN settings.environment ELSE NoVal]

\* HeliconeProvider.languageModel: the extraBody of the model it returns.
languageModel(defaultExtraBody, settings) ==
  IF Truthy(settings.promptId)
    THEN Spread(Spread(defaultExtraBody, settings.extraBody), PromptParameters(settings))
  ELSE Spread(defaultExtraBody, settings.extraBody)

\* ---------------------------------------------------------------- headers
\* The request headers: NoVal marks a header that is not sent; tags is the
\* set of tags t with a Helicone-Property-Tag-t header.
NoMetadataHeaders ==
  [contentType |-> "application/json", sessionId |-> NoVal, userId |-> NoVal,
   property |-> NoProperties, tags |-> {}, cache |-> NoVal]

\* get headers(): the helicone metadata of extraBody as request headers.
headers(extraBody) ==
  IF "helicone" \notin extraBody.keys THEN NoMetadataHeaders
  ELSE LET h == extraBody.helicone IN
    [contentType |-> "application/json",
     sessionId |-> IF Truthy(h.sessionId) THEN h.sessionId ELSE NoVal,
     userId |-> IF Truthy(h.userId) THEN h.userId ELSE NoVal,
     property |-> h.properties,
     tags |-> {h.tags[i] : i \in DOMAIN h.tags},
     cache |-> h.cache]

\* ---------------------------------------------- convertToHeliconePrompt
\* JSON.stringify of a parsed JSON value (see JsonValue).
Stringify(v) == <<"{">> \o [i \in 1..v.n |-> "a"] \o <<"}">>

\* One part of a turn of the prompt.  text is the text of a text or
\* reasoning part, the data of a file part and the value of a text output;
\* input is the input of a tool call and the value of a json output.
Part(type, text, toolCallId, toolName, input, outputType) ==
  [type |-> type, text |-> text, toolCallId |-> toolCallId, toolName |-> toolName,
   input |-> input, outputType |-> outputType]
TextPart(t) == Part("text", t, NoVal, NoVal, JsonNone, NoVal)
ReasoningPart(t) == Part("reasoning", t, NoVal, NoVal, JsonNone, NoVal)
FilePart(d) == Part("file", d, NoVal, NoVal, JsonNone, NoVal)
ToolCallPart(id, name, input) == Part("tool-call", <<>>, id, name, input, NoVal)
ToolResultText(id, name, t) == Part("tool-result", t, id, name, JsonNone, "text")
ToolResultJson(id, name, v) == Part("tool-result", <<>>, id, name, v, "json")
\* A part of a type the provider specification does not know.
UnknownPart(type) == Part(type, <<"x">>, NoVal, NoVal, JsonNone, NoVal)

\* One message of the prompt: system turns have text, the others parts.
Turn(role, text, parts) == [role |-> role, text |-> text, parts |-> parts]

\* One HeliconeMessage.  content.kind is "string", "parts" or "undefined".
Message(role, content, tool_calls, tool_call_id, name) ==
  [role |-> role, content |-> content, tool_calls |-> tool_calls,
   tool_call_id |-> tool_call_id, name |-> name]
StringContent(t) == [kind |-> "string", text |-> t, parts |-> <<>>]
PartsContent(ps) == [kind |-> "parts", text |-> <<>>, parts |-> ps]
NoContent == [kind |-> "undefined", text |-> <<>>, parts |-> <<>>]

\* The outcome of a conversion: the messages returned, or the error thrown
\* (what names the message, value is the offending role or type).
Converted(messages) == [threw |-> FALSE, what |-> NoVal, value |-> NoVal, messages |-> messages]
Unsupported(what, value) ==
  [threw |-> TRUE, what |-> "Unsupported " \o what, value |-> value, messages |-> <<>>]

\* case 'user': the wire part of one content part.
UserPart(part) ==
  IF part.type = "text" THEN [type |-> "text", text |-> part.text]
  ELSE [type |-> "image_url", text |-> part.text]
\* The part types the switch of the user case has a case for.
UserPartTypes == {"text", "file"}

\* The first part of parts, from part i on, whose type is not among
\* accepted (0 when there is none).
RECURSIVE FirstRejected(_, _, _)
FirstRejected(parts, accepted, i) ==
  IF i > Len(parts) THEN 0
  ELSE IF parts[i].type \notin accepted THEN i
  ELSE FirstRejected(parts, accepted, i + 1)

\* case 'assistant': the text a part contributes to the content string.
AssistantText(part) ==
  IF part.type \in {"text", "reasoning"} THEN part.text ELSE <<>>
RECURSIVE JoinTexts(_)
JoinTexts(parts) ==
  IF parts = <<>> THEN <<>>
  ELSE AssistantText(Head(parts)) \o JoinTexts(Tail(parts))
\* message.content.map(...).filter(Boolean).join('') || undefined
AssistantContent(parts) ==
  IF JoinTexts(parts) = <<>> THEN NoContent ELSE StringContent(JoinTexts(parts))
\* The tool_calls array of an assistant message.
AssistantToolCalls(parts) ==
  LET calls == SelectSeq(parts, LAMBDA part : part.type = "tool-call") IN
  [i \in 1..Len(calls) |->
     [id |-> calls[i].toolCallId, name |-> calls[i].toolName,
      arguments |-> Stringify(calls[i].input)]]

ToolMessage_Untagged(part) ==
  Message("tool",
          IF part.outputType = "text" THEN StringContent(part.text)
          ELSE StringContent(Stringify(part.input)),
          <<>>, NoVal, NoVal)

\* case 'tool': the message of one tool-result part.
ToolMessage(part) ==
  Message("tool",
          IF part.outputType = "text" THEN StringContent(part.text)
          ELSE StringContent(Stringify(part.input)),
          <<>>, part.toolCallId, part.toolName)
\* The part type the tool case accepts.
ToolPartTypes == {"tool-result"}

\* The messages one turn of a supported role pushes, or the error it throws.
ConvertTurn(turn) ==
  CASE turn.role = "system" ->
         Converted(<<Message("system", StringContent(turn.text), <<>>, NoVal, NoVal)>>)
    [] turn.role = "user" ->
         IF FirstRejected(turn.parts, UserPartTypes, 1) # 0
           THEN Unsupported("content type",
                            turn.parts[FirstRejected(turn.parts, UserPartTypes, 1)].type)
         ELSE Converted(<<Message("user",
                                  PartsContent([i \in DOMAIN turn.parts |-> UserPart(turn.parts[i])]),
                                  <<>>, NoVal, NoVal)>>)
    [] turn.role = "assistant" ->
         Converted(<<Message("assistant", AssistantContent(turn.parts),
                             AssistantToolCalls(turn.parts), NoVal, NoVal)>>)
    [] turn.role = "tool" ->
         IF FirstRejected(turn.parts, ToolPartTypes, 1) # 0
           THEN Unsupported("tool content type",
                            turn.parts[FirstRejected(turn.parts, ToolPartTypes, 1)].type)
         ELSE Converted([i \in DOMAIN turn.parts |-> ToolMessage(turn.parts[i])])
    [] OTHER -> Unsupported("message role", turn.role)

\* for (const message of prompt) { switch (message.role) ... }
RECURSIVE convertToHeliconePrompt(_)
convertToHeliconePrompt(prompt) ==
  IF prompt = <<>> THEN Converted(<<>>)
  ELSE LET first == ConvertTurn(Head(prompt)) IN
    IF first.threw THEN first
    ELSE LET rest == convertToHeliconePrompt(Tail(prompt)) IN
      IF rest.threw THEN rest
      ELSE Converted(first.messages \o rest.messages)

\* ------------------------------------------------------ buildRequestBody
\* The JSON body of a request: keys are its fields, the other fields their
\* values (NoVal, <<>> for a missing key).
Body(keys, model, stream, custom, prompt_id, inputs, environment, messages) ==
  [keys |-> keys, model |-> model, stream |-> stream, custom |-> custom,
   prompt_id |-> prompt_id, inputs |-> inputs, environment |-> environment,
   messages |-> messages, tools |-> <<>>]

otherExtraBody_KeepingHelicone(extraBody) == extraBody.keys \cap (OtherKeys \cup {"helicone"})

\* const { helicone, prompt_id, inputs, environment, ...otherExtraBody }
otherExtraBody(extraBody) == extraBody.keys \cap OtherKeys

\* { model: this.modelId, stream: false, ...otherExtraBody }
BaseBody(modelId, extraBody) ==
  Body({"model", "stream"} \cup otherExtraBody(extraBody),
       IF "model" \in extraBody.keys THEN extraBody.other["model"] ELSE modelId,
       IF "stream" \in extraBody.keys THEN extraBody.other["stream"] ELSE "false",
       IF "custom" \in extraBody.keys THEN extraBody.other["custom"] ELSE NoVal,
       NoVal, NoVal, NoVal, <<>>)

UsesPrompt_OnlyWithInputs(extraBody) ==
  "prompt_id" \in extraBody.keys /\ Truthy(extraBody.prompt_id) /\ Truthy(extraBody.inputs)

\* if (prompt_id)
UsesPrompt(extraBody) == "prompt_id" \in extraBody.keys /\ Truthy(extraBody.prompt_id)

\* body.prompt_id = prompt_id; environment and inputs when they are truthy.
PromptBody(body, extraBody) ==
  [body EXCEPT
     !.keys = body.keys \cup {"prompt_id"}
              \cup (IF "environment" \in extraBody.keys /\ Truthy(extraBody.environment)
                      THEN {"environment"} ELSE {})
              \cup (IF "inputs" \in extraBody.keys /\ Truthy(extraBody.inputs)
                      THEN {"inputs"} ELSE {}),
     !.prompt_id = extraBody.prompt_id,
     !.environment = IF "environment" \in extraBody.keys /\ Truthy(extraBody.environment)
                       THEN extraBody.environment ELSE NoVal,
     !.inputs = IF "inputs" \in extraBody.keys /\ Truthy(extraBody.inputs)
                  THEN extraBody.inputs ELSE NoVal]

\* body.messages = convertToHeliconePrompt(options.prompt)
MessagesBody(body, converted) ==
  [body EXCEPT !.keys = body.keys \cup {"messages"}, !.messages = converted.messages]

\* buildRequestBody(options): the body, or the error the conversion throws.
buildRequestBody(modelId, extraBody, prompt) ==
  IF UsesPrompt(extraBody)
    THEN [conversion |-> Converted(<<>>),
          body |-> PromptBody(BaseBody(modelId, extraBody), extraBody)]
  ELSE IF prompt # <<>>
    THEN [conversion |-> convertToHeliconePrompt(prompt),
          body |-> MessagesBody(BaseBody(modelId, extraBody), convertToHeliconePrompt(prompt))]
  ELSE [conversion |-> Converted(<<>>), body |-> BaseBody(modelId, extraBody)]

\* One element of options.tools.  parameters is "object" (a schema object),
\* "function" (a truthy value that is not an object) or NoVal; converts
\* tells whether asSchema(tool.parameters).jsonSchema returns or throws;
\* inputSchema is "schema" (an object with jsonSchema), "object" or NoVal.
Tool(name, parameters, converts, inputSchema) ==
  [name |-> name, parameters |-> parameters, converts |-> converts,
   inputSchema |-> inputSchema]

\* catch (e) { parameters = typeof tool.parameters === 'object' ? ... }
Fallback(tool) ==
  IF tool.parameters = "object" THEN "tool.parameters" ELSE "{type:object}"

\* The parameters of the function entry built for tool.
Parameters(tool) ==
  IF tool.parameters # NoVal
    THEN IF tool.converts THEN "asSchema(tool.parameters).jsonSchema" ELSE Fallback(tool)
  ELSE IF tool.inputSchema = "schema" THEN "tool.inputSchema.jsonSchema"
  ELSE IF tool.inputSchema = "object" THEN "{type:object,...tool.inputSchema}"
  ELSE "{type:object}"

\* body.tools = options.tools.map(...) when options.tools is not empty.
ToolsBody(body, tools) ==
  IF tools = <<>> THEN body
  ELSE [body EXCEPT
          !.keys = body.keys \cup {"tools"},
          !.tools = [i \in DOMAIN tools |->
                       [type |-> "function", name |-> tools[i].name,
                        parameters |-> Parameters(tools[i])]]]

\* doGenerate sends the body as built; doStream sends { ...body, stream: true }.
RequestBody(method, body) ==
  IF method = "doStream" THEN [body EXCEPT !.stream = "true"] ELSE body

\* ----------------------------------------------------------------- errors
\* The payload of a gateway error (HeliconeErrorData); kind is "parsed"
\* (the JSON of the response body), "synthesized" (built from the status
\* and the raw text), "empty" ({}) or NoVal (no data).
ErrorData(kind, message, type, code) ==
  [kind |-> kind, message |-> message, type |-> type, code |-> code]
NoData == ErrorData(NoVal, NoVal, NoVal, NoVal)

\* A value that is thrown.  ref is the identity of the object; response and
\* cause hold the identity of the response and of the error they refer to;
\* names is the value interpolated at the end of the message (NoVal: none).
Thrown(ref, name, isError, message, data, response, cause) ==
  [ref |-> ref, name |-> name, isError |-> isError, message |-> message,
   names |-> NoVal, data |-> data, response |-> response, cause |-> cause]
NoError == Thrown(NoVal, NoVal, FALSE, NoVal, NoData, NoVal, NoVal)

\* new HeliconeError({ message, data, response, cause }), the n-th created
\* in the call; failure is the value passed as cause (NoError when none).
createHeliconeError(n, message, data, response, failure) ==
  Thrown(IF n = 1 THEN "HeliconeError#1" ELSE "HeliconeError#2",
         "HeliconeError", TRUE,
         IF Truthy(message) THEN message
         ELSE IF Truthy(data.message) THEN data.message
         ELSE IF response # NoVal THEN "HTTP status: statusText"
         ELSE "An error occurred",
         data, response, failure.ref)

\* new Error(`Unsupported ...: ${value}`) thrown by convertToHeliconePrompt.
ValidationError(converted) ==
  [Thrown("ValidationError", "Error", TRUE, converted.what, NoData, NoVal, NoVal)
     EXCEPT !.names = converted.value]

IsAbortError_Never(error) == FALSE

\* error instanceof Error && error.name === 'AbortError'
IsAbortError(error) == error.isError /\ error.name = "AbortError"

\* The catch block of doGenerate and doStream: what the call rejects with
\* when error was thrown in its try block, n - 1 HeliconeErrors created.
Rethrow(error, n, message) ==
  IF IsAbortError(error) THEN error
  ELSE [createHeliconeError(n, message, NoData, NoVal, error) EXCEPT !.names = error.ref]

FailureMessage(method) ==
  IF method = "doStream" THEN "Failed to stream response" ELSE "Failed to generate response"

\* -------------------------------------------------------------- responses
\* The Response of the gateway.  body is "error-json" (a JSON error
\* payload), "text" (text that is not JSON), "unreadable" (reading the
\* body rejects) or "completion" (the chat completion of a 2xx response).
Response(ok, status, body) == [ref |-> "Response#1", ok |-> ok, status |-> status, body |-> body]

GatewayPayload == ErrorData("parsed", "Invalid API key", "invalid_request_error", "401")

\* doGenerate: errorText parsed as JSON, or the payload built from it.
GenerateErrorData(response) ==
  CASE response.body = "error-json" -> GatewayPayload
    [] response.body = "text" ->
         ErrorData("synthesized", "Bad Gateway", "http_error", response.status)
    [] OTHER ->
         ErrorData("synthesized", "HTTP status: statusText", "http_error", response.status)

\* doStream: await response.json().catch(() => ({}))
StreamErrorData(response) ==
  IF response.body = "error-json" THEN GatewayPayload
  ELSE ErrorData("empty", NoVal, NoVal, NoVal)

ResponseErrorData(method, response) ==
  IF method = "doStream" THEN StreamErrorData(response) ELSE GenerateErrorData(response)

\* ------------------------------------------------- the result of doGenerate
\* One entry of message.tool_calls of a chat completion.
CompletionToolCall(id, name, arguments) == [id |-> id, name |-> name, arguments |-> arguments]

\* The JSON of a 2xx response: choices[0].finish_reason, message.content,
\* message.tool_calls and usage.
Completion(finish_reason, content, tool_calls, u) ==
  [finish_reason |-> finish_reason, content |-> content, tool_calls |-> tool_calls,
   usage |-> u]

\* x ?? d on a numeric field of the usage object.
OrElse(x, d) == IF x = Absent THEN d ELSE x

GenerateUsage_TotalOrZero(u) ==
  [inputTokens |-> OrElse(u.prompt_tokens, 0),
   outputTokens |-> OrElse(u.completion_tokens, 0),
   totalTokens |-> OrElse(u.total_tokens, 0)]

\* usage: { inputTokens, outputTokens, totalTokens } of the returned value.
GenerateUsage(u) ==
  [inputTokens |-> OrElse(u.prompt_tokens, 0),
   outputTokens |-> OrElse(u.completion_tokens, 0),
   totalTokens |-> OrElse(u.total_tokens,
                          OrElse(u.prompt_tokens, 0) + OrElse(u.completion_tokens, 0))]

\* One element of the content array of the returned value.
ContentText(t) == [type |-> "text", text |-> t, toolCallId |-> NoVal, toolName |-> NoVal,
                   input |-> JsonNone]
ContentToolCall(tc) == [type |-> "tool-call", text |-> <<>>, toolCallId |-> tc.id,
                        toolName |-> tc.name, input |-> JsonValue(tc.arguments)]

GenerateValue(content, finishReason, u) ==
  [content |-> content, finishReason |-> finishReason, usage |-> u]
NoValue == GenerateValue(<<>>, NoVal, ZeroUsage)

ArgumentsThrow_Never(data) == FALSE

\* JSON.parse(toolCall.function.arguments) throws for one of the tool calls.
ArgumentsThrow(data) ==
  \E i \in DOMAIN data.tool_calls : ~JsonParses(data.tool_calls[i].arguments)

SyntaxError == Thrown("SyntaxError", "SyntaxError", TRUE, "Unexpected token", NoData, NoVal, NoVal)

\* The value doGenerate returns for a completion whose arguments all parse.
GenerateResult(data) ==
  GenerateValue((IF data.content # <<>> THEN <<ContentText(data.content)>> ELSE <<>>)
                  \o [i \in DOMAIN data.tool_calls |-> ContentToolCall(data.tool_calls[i])],
                mapHeliconeFinishReason(data.finish_reason),
                GenerateUsage(data.usage))

\* ------------------------------------------------------------------ state
VARIABLES
  pc,                  \* "reading", "closed" (controller.close) or "errored" (controller.error)
  usage,               \* const usage = { inputTokens, outputTokens, totalTokens }
  actualFinishReason,  \* let actualFinishReason
  toolCalls,           \* const toolCalls: Array<... | null>
  out,                 \* the events enqueued on the controller, in order
  wire,                \* history: the body lines processed so far
  streamError          \* the value passed to controller.error

\* The provider, the model it created and the call made on the model.
VARIABLES
  provider,            \* HeliconeProvider.defaultExtraBody
  model,               \* the HeliconeLanguageModel: modelId, extraBody (and the settings it was built from)
  callPc,              \* "provider", "model", "fetching", "streaming", "returned" or "rejected"
  call,                \* the method called and options.prompt
  fetches,             \* the requests passed to fetch: body and headers
  received,            \* history: what fetch resolved or rejected with
  created,             \* the HeliconeErrors created during the call
  outcome              \* what the call resolved or rejected with

\* A second doStream call made on the same model while the first is running:
\* the variables its own start() callback declares, as one record.
VARIABLES
  second               \* pc, usage, actualFinishReason, toolCalls, out, wire of that call

callVars == <<provider, model, callPc, call, fetches, received, created, outcome>>
streamVars == <<pc, usage, actualFinishReason, toolCalls, out, wire, streamError>>
vars == <<pc, usage, actualFinishReason, toolCalls, out, wire, streamError,
          provider, model, callPc, call, fetches, received, created, outcome,
          second>>

\* The variables a doStream call declares before it reads the first chunk.
StreamState(at) ==
  [pc |-> at, usage |-> ZeroUsage, actualFinishReason |-> "stop",
   toolCalls |-> <<>>, out |-> <<>>, wire |-> <<>>]

Model(modelId, settings, extraBody) ==
  [modelId |-> modelId, settings |-> settings, extraBody |-> extraBody]
Call(method, prompt) == [method |-> method, prompt |-> prompt, tools |-> <<>>]
Request(body, requestHeaders) == [body |-> body, headers |-> requestHeaders]
Outcome(kind, error, value) == [kind |-> kind, error |-> error, value |-> value]
\* What fetch did: kind is "nothing", "failure", "response" or "completion".
Received(kind, failure, response, data) ==
  [kind |-> kind, failure |-> failure, response |-> response, data |-> data]
NoCompletion == Completion(NoVal, <<>>, <<>>, NoUsage)
OkResponse == Response(TRUE, "200", "completion")
NothingReceived == Received("nothing", NoError, Response(FALSE, NoVal, NoVal), NoCompletion)

NoSettings == ModelSettings(NoVal, NoVal, NoVal, EmptyExtraBody)
HelloPrompt == <<Turn("user", <<>>, <<TextPart(<<"h">>)>>)>>

\* A doStream call on a model without extraBody whose request got a 2xx
\* response: the stream has been returned and its start() callback runs.
StreamingCall ==
  /\ provider = EmptyExtraBody
  /\ model = Model("gpt-4o", NoSettings, languageModel(EmptyExtraBody, NoSettings))
  /\ callPc = "streaming"
  /\ call = Call("doStream", HelloPrompt)
  /\ fetches = <<Request(RequestBody("doStream",
                                     buildRequestBody("gpt-4o", EmptyExtraBody, HelloPrompt).body),
                         headers(EmptyExtraBody))>>
  /\ received = Received("response", NoError, OkResponse, NoCompletion)
  /\ created = <<>>
  /\ outcome = Outcome("returned", NoError, NoValue)

Init ==
  /\ pc = "reading"
  /\ usage = ZeroUsage
  /\ actualFinishReason = "stop"
  /\ toolCalls = <<>>
  /\ out = <<>>
  /\ wire = <<>>
  /\ streamError = NoError
  /\ second = StreamState("unopened")
  /\ StreamingCall

CallState ==
  [usage |-> usage, actualFinishReason |-> actualFinishReason,
   toolCalls |-> toolCalls, out |-> out]

\* A line that is skipped: no "data: " prefix, or the [DONE] sentinel.
SkipLine(kind) ==
  /\ pc = "reading"
  /\ Len(wire) < MaxLines
  /\ wire' = Append(wire, PlainLine(kind))
  /\ UNCHANGED <<pc, usage, actualFinishReason, toolCalls, out>>
  /\ UNCHANGED <<callVars, second, streamError>>

\* A data line whose payload is not JSON: the catch block swallows the error.
BadLine ==
  /\ pc = "reading"
  /\ Len(wire) < MaxLines
  /\ wire' = Append(wire, PlainLine("bad"))
  /\ UNCHANGED <<pc, usage, actualFinishReason, toolCalls, out>>
  /\ UNCHANGED <<callVars, second, streamError>>

\* The loop body run on a data line whose payload parses to frame f.
Deliver(f) ==
  /\ pc = "reading"
  /\ LET S == ProcessFrame(CallState, f, Len(wire) + 1) IN
       /\ usage' = S.usage
       /\ actualFinishReason' = S.actualFinishReason
       /\ toolCalls' = S.toolCalls
       /\ out' = S.out
  /\ wire' = Append(wire, f)
  /\ pc' = pc
  /\ UNCHANGED <<callVars, second, streamError>>

\* A data line whose payload parses: one frame.
DataLine(f) ==
  /\ Len(wire) < MaxLines
  /\ Deliver(f)

\* The events enqueued when reader.read() reports done.
EndOfStream(S, k) ==
  [S EXCEPT !.out = Append(S.out, Finish(S.usage, S.actualFinishReason, k))]

ReadDone_Ignored ==
  /\ pc = "reading"
  /\ UNCHANGED vars

\* reader.read() resolves with done: finish is enqueued and the stream closed.
ReadDone ==
  /\ pc = "reading"
  /\ LET S == EndOfStream(CallState, Len(wire) + 1) IN
       /\ out' = S.out
       /\ toolCalls' = S.toolCalls
  /\ pc' = "closed"
  /\ UNCHANGED <<usage, actualFinishReason, wire>>
  /\ UNCHANGED <<callVars, second, streamError>>

ReadFails_EnqueuesFinish(e) ==
  /\ pc = "reading"
  /\ pc' = "errored"
  /\ streamError' = e
  /\ received' = [received EXCEPT !.failure = e]
  /\ out' = Append(out, Finish(usage, actualFinishReason, Len(wire) + 1))
  /\ UNCHANGED <<usage, actualFinishReason, toolCalls, wire>>
  /\ UNCHANGED <<provider, model, callPc, call, fetches, created, outcome, second>>

\* reader.read() rejects with e: the catch of start() calls
\* controller.error(e).  received keeps the value read() rejected with.
ReadFails(e) ==
  /\ pc = "reading"
  /\ pc' = "errored"
  /\ streamError' = e
  /\ received' = [received EXCEPT !.failure = e]
  /\ UNCHANGED <<usage, actualFinishReason, toolCalls, out, wire>>
  /\ UNCHANGED <<provider, model, callPc, call, fetches, created, outcome, second>>

\* The body is cut off while it is read.
Terminated == Thrown("TypeError#2", "TypeError", TRUE, "terminated", NoData, NoVal, NoVal)
ReadError == ReadFails(Terminated)

Next ==
  \/ \E kind \in {"other", "done"} : SkipLine(kind)
  \/ BadLine
  \/ \E f \in Frames : DataLine(f)
  \/ ReadDone
  \/ ReadError

Spec == Init /\ [][Next]_vars

\* ===================================================== the call, step by step
\* ---------------------------------------------------- what the caller passes
\* The default extraBody of the provider.
DefaultExtraBodies ==
  { EmptyExtraBody,
    WithHelicone(Helicone("session-d", "user-d", NoProperties, <<>>, NoVal)),
    WithHelicone(Helicone(NoVal, NoVal, [NoProperties EXCEPT !["env"] = "prod"],
                          <<"tag-d">>, "true")),
    WithOther("custom", "d") }

\* The settings of languageModel(modelId, settings).
PromptSettings ==
  { NoSettings,
    ModelSettings("prompt-1", NoVal, NoVal, EmptyExtraBody),
    ModelSettings("prompt-1", "inputs-1", NoVal, EmptyExtraBody),
    ModelSettings("prompt-1", "inputs-1", "production", EmptyExtraBody),
    ModelSettings("", "inputs-1", NoVal, EmptyExtraBody) }
ExtraBodySettings ==
  { ModelSettings(NoVal, NoVal, NoVal, x) :
      x \in { WithHelicone(Helicone("session-c", NoVal, NoProperties, <<>>, NoVal)),
              WithHelicone(Helicone(NoVal, "user-c", NoProperties, <<>>, "false")),
              WithHelicone(Helicone(NoVal, NoVal, [NoProperties EXCEPT !["team"] = "ml"],
                                    <<>>, NoVal)),
              WithHelicone(Helicone(NoVal, NoVal, NoProperties, <<"tag-c">>, NoVal)),
              WithOther("custom", "c"),
              WithOther("stream", "true"),
              WithOther("model", "other-model") } }
Settings ==
  PromptSettings \cup ExtraBodySettings
  \cup { ModelSettings("prompt-1", NoVal, NoVal,
                       WithHelicone(Helicone("session-c", NoVal, NoProperties, <<>>, NoVal))) }

\* The conversations passed as options.prompt.
CallPrompts ==
  { <<>>,
    HelloPrompt,
    <<Turn("system", <<"s">>, <<>>), Turn("user", <<>>, <<TextPart(<<"h">>)>>)>>,
    <<Turn("user", <<>>, <<TextPart(<<"h">>), UnknownPart("audio")>>)>>,
    <<Turn("developer", <<"s">>, <<>>)>>,
    <<Turn("user", <<>>, <<TextPart(<<"h">>)>>),
      Turn("assistant", <<>>, <<TextPart(<<"a">>), FilePart(<<"x">>)>>)>>,
    <<Turn("tool", <<>>, <<TextPart(<<"h">>)>>)>> }

\* The lists passed as options.tools.
ToolLists ==
  { <<Tool("getWeather", "object", TRUE, NoVal)>>,
    <<Tool("getWeather", "object", FALSE, NoVal)>>,
    <<Tool("getWeather", "function", FALSE, NoVal)>>,
    <<Tool("getWeather", "object", TRUE, NoVal), Tool("calculate", "object", FALSE, NoVal)>>,
    <<Tool("getWeather", NoVal, TRUE, "schema"), Tool("calculate", NoVal, TRUE, "object")>>,
    <<Tool("getWeather", NoVal, TRUE, NoVal), Tool("calculate", "function", FALSE, NoVal)>> }

\* The values fetch rejects with.
TransportFailures ==
  { Thrown("AbortError#1", "AbortError", TRUE, "This operation was aborted", NoData, NoVal, NoVal),
    Thrown("TypeError#1", "TypeError", TRUE, "fetch failed", NoData, NoVal, NoVal),
    Thrown("TimeoutError#1", "TimeoutError", TRUE, "The operation timed out", NoData, NoVal, NoVal),
    Thrown("Object#1", "AbortError", FALSE, NoVal, NoData, NoVal, NoVal) }

\* The responses with a status outside 2xx.
ErrorResponses ==
  { Response(FALSE, status, body) :
      status \in {"401", "502"}, body \in {"error-json", "text", "unreadable"} }

\* The finish_reason values of a completion.
FinishReasons ==
  { "stop", "eos", "length", "max_tokens", "content_filter", "tool_calls",
    "function_call", "safety_block", "unknown", "", NoVal, "null",
    "STOP", "Stop", "EOS", "LENGTH", "Max_Tokens", "CONTENT_FILTER",
    "content-filter", "tool-calls", "TOOL_CALLS", "Function_Call" }

\* The chat completions of a 2xx response.
Completions ==
  { Completion(r, <<"h">>, <<>>, UsageA) : r \in FinishReasons }
  \cup { Completion("stop", <<"h">>, <<>>, u) :
           u \in {NoUsage, WireUsage(5, 2, Absent), WireUsage(Absent, 2, Absent),
                  WireUsage(5, 0, 9), WireUsage(5, 2, 0)} }
  \cup { Completion("tool_calls", <<>>, <<CompletionToolCall("call_0", "getWeather", a)>>, UsageA) :
           a \in {<<"{", "}">>, <<"{", "a", "}">>, <<"{", "a">>, <<>>} }

\* ------------------------------------------------------------------ steps
\* The stream of the call does not exist before doStream returns it.
NoStream ==
  /\ pc = "unopened"
  /\ usage = ZeroUsage
  /\ actualFinishReason = "stop"
  /\ toolCalls = <<>>
  /\ out = <<>>
  /\ wire = <<>>
  /\ streamError = NoError
  /\ second = StreamState("unopened")

\* new HeliconeProvider(config): a provider and no model yet.
InitCall ==
  /\ NoStream
  /\ provider \in DefaultExtraBodies
  /\ model = Model(NoVal, NoSettings, EmptyExtraBody)
  /\ callPc = "provider"
  /\ call = Call(NoVal, <<>>)
  /\ fetches = <<>>
  /\ received = NothingReceived
  /\ created = <<>>
  /\ outcome = Outcome("pending", NoError, NoValue)

\* provider.languageModel(modelId, settings)
CreateModel(modelId, settings) ==
  /\ callPc = "provider"
  /\ model' = Model(modelId, settings, languageModel(provider, settings))
  /\ callPc' = "model"
  /\ UNCHANGED <<provider, call, fetches, received, created, outcome>>
  /\ UNCHANGED <<streamVars, second>>

\* doGenerate(options) or doStream(options) up to its await of fetch: the
\* body is built, which may throw, and the request is passed to fetch.
StartCallWith(method, prompt, tools) ==
  /\ callPc = "model"
  /\ call' = [Call(method, prompt) EXCEPT !.tools = tools]
  /\ LET built == buildRequestBody(model.modelId, model.extraBody, prompt) IN
       IF built.conversion.threw
         THEN /\ callPc' = "rejected"
              /\ outcome' = Outcome("threw", ValidationError(built.conversion), NoValue)
              /\ fetches' = fetches
         ELSE /\ callPc' = "fetching"
              /\ outcome' = outcome
              /\ fetches' = Append(fetches,
                                    Request(RequestBody(method, ToolsBody(built.body, tools)),
                                            headers(model.extraBody)))
  /\ UNCHANGED <<provider, model, received, created>>
  /\ UNCHANGED <<streamVars, second>>

\* A call without tools.
StartCall(method, prompt) == StartCallWith(method, prompt, <<>>)

\* The call rejects with what its catch block throws for error.
Reject(error) ==
  /\ callPc' = "rejected"
  /\ outcome' = Outcome("threw",
                        Rethrow(error, Len(created) + 1, FailureMessage(call.method)),
                        NoValue)
  /\ created' = IF IsAbortError(error) THEN created
                ELSE Append(created,
                            Rethrow(error, Len(created) + 1, FailureMessage(call.method)))

\* fetch rejects: the catch block runs on the failure.
FetchRejects(failure) ==
  /\ callPc = "fetching"
  /\ received' = Received("failure", failure, NothingReceived.response, NoCompletion)
  /\ Reject(failure)
  /\ UNCHANGED <<provider, model, call, fetches>>
  /\ UNCHANGED <<streamVars, second>>

\* fetch resolves with a response that is not ok: the error built from the
\* response is thrown in the try block and the catch block runs on it.
ErrorResponse(response) ==
  /\ callPc = "fetching"
  /\ ~response.ok
  /\ received' = Received("response", NoError, response, NoCompletion)
  /\ LET error == createHeliconeError(1, NoVal, ResponseErrorData(call.method, response),
                                      response.ref, NoError) IN
       /\ callPc' = "rejected"
       /\ outcome' = Outcome("threw", Rethrow(error, 2, FailureMessage(call.method)), NoValue)
       /\ created' = IF IsAbortError(error) THEN <<error>>
                     ELSE <<error, Rethrow(error, 2, FailureMessage(call.method))>>
  /\ UNCHANGED <<provider, model, call, fetches>>
  /\ UNCHANGED <<streamVars, second>>

\* doStream gets a 2xx response: it returns the stream, whose start()
\* callback begins to read the body.
StreamResponse ==
  /\ callPc = "fetching"
  /\ call.method = "doStream"
  /\ received' = Received("response", NoError, OkResponse, NoCompletion)
  /\ callPc' = "streaming"
  /\ outcome' = Outcome("returned", NoError, NoValue)
  /\ pc' = "reading"
  /\ UNCHANGED <<usage, actualFinishReason, toolCalls, out, wire, streamError, second>>
  /\ UNCHANGED <<provider, model, call, fetches, created>>

\* doGenerate gets a 2xx response with completion data: it returns the
\* result, or JSON.parse of a tool call's arguments throws in the try block.
GenerateResponse(data) ==
  /\ callPc = "fetching"
  /\ call.method = "doGenerate"
  /\ received' = Received("completion", NoError, OkResponse, data)
  /\ IF ArgumentsThrow(data)
       THEN Reject(SyntaxError)
       ELSE /\ callPc' = "returned"
            /\ outcome' = Outcome("returned", NoError, GenerateResult(data))
            /\ created' = created
  /\ UNCHANGED <<provider, model, call, fetches>>
  /\ UNCHANGED <<streamVars, second>>

NextCall ==
  \/ \E settings \in Settings : CreateModel("gpt-4o", settings)
  \/ \E method \in {"doGenerate", "doStream"} : \E prompt \in CallPrompts :
       StartCall(method, prompt)
  \/ \E method \in {"doGenerate", "doStream"} : \E tools \in ToolLists :
       StartCallWith(method, HelloPrompt, tools)
  \/ \E failure \in TransportFailures : FetchRejects(failure)
  \/ \E response \in ErrorResponses : ErrorResponse(response)
  \/ StreamResponse
  \/ \E data \in Completions : GenerateResponse(data)

SpecCall == InitCall /\ [][NextCall]_vars

\* ------------------------------------------------- bounded conversations
\* The sequences of at most n elements of S.
SeqsUpTo(S, n) == UNION {[1..k -> S] : k \in 0..n}

ToolResultA == ToolResultText("call_0", "getWeather", <<"h">>)
ToolResultB == ToolResultJson("call_1", "calculate", EmptyObject)

\* Turns made of parts that convertToHeliconePrompt has a case for.
PlainTurns ==
  {Turn("system", <<"s">>, <<>>)}
  \cup {Turn("user", <<>>, ps) : ps \in SeqsUpTo({TextPart(<<"h">>), FilePart(<<"x">>)}, MaxParts)}
  \cup {Turn("assistant", <<>>, ps) :
          ps \in SeqsUpTo({TextPart(<<"a">>),
                           ToolCallPart("call_0", "getWeather", EmptyObject)}, MaxParts)}
  \cup {Turn("assistant", <<>>, <<ReasoningPart(<<"r">>), TextPart(<<"a">>)>>)}
  \cup {Turn("tool", <<>>, ps) : ps \in SeqsUpTo({ToolResultA, ToolResultB}, MaxParts)}

\* Turns with a role or a part that has no case of its own.
OddTurns ==
  { Turn("developer", <<"s">>, <<>>),
    Turn("user", <<>>, <<TextPart(<<"h">>), UnknownPart("audio")>>),
    Turn("user", <<>>, <<ToolCallPart("call_0", "getWeather", EmptyObject)>>),
    Turn("assistant", <<>>, <<TextPart(<<"a">>), FilePart(<<"x">>)>>),
    Turn("assistant", <<>>, <<UnknownPart("audio")>>),
    Turn("tool", <<>>, <<ToolResultA, TextPart(<<"h">>)>>) }

Conversations == SeqsUpTo(PlainTurns \cup OddTurns, MaxTurns)

\* A model created without settings by a provider without default extraBody.
InitConvert ==
  /\ NoStream
  /\ provider = EmptyExtraBody
  /\ model = Model("gpt-4o", NoSettings, languageModel(EmptyExtraBody, NoSettings))
  /\ callPc = "model"
  /\ call = Call(NoVal, <<>>)
  /\ fetches = <<>>
  /\ received = NothingReceived
  /\ created = <<>>
  /\ outcome = Outcome("pending", NoError, NoValue)

\* The conversion of options.prompt, as the first step of a call.
NextConvert ==
  /\ callPc = "model"
  /\ \E prompt \in Conversations : StartCall("doGenerate", prompt)

SpecConvert == InitConvert /\ [][NextConvert]_vars

\* ------------------------------------- one call, from request to last event
\* The frames of a tool call at position 0, and the finish signal.
CallFrames ==
  {Frame(TRUE, NoVal, TRUE, <<>>, <<tc>>, NoUsage) : tc \in FragmentsOf(0)}
  \cup {Frame(TRUE, "tool_calls", TRUE, <<>>, <<>>, NoUsage)}

\* The completions with one tool call.
ToolCompletions == {data \in Completions : data.tool_calls # <<>>}

\* A call of either method whose request gets a 2xx response: doGenerate
\* reads a completion with a tool call, doStream reads a body that is
\* delivered line by line and ends.
NextWhole ==
  \/ \E method \in {"doGenerate", "doStream"} : StartCall(method, HelloPrompt)
  \/ \E data \in ToolCompletions : GenerateResponse(data)
  \/ StreamResponse
  \/ \E f \in CallFrames : DataLine(f)
  \/ ReadDone

SpecWhole == InitConvert /\ [][NextWhole]_vars

\* ------------------------------------------- two calls on the same model
\* Two doStream calls running on one model.  Each call's start() callback
\* declares its own usage, actualFinishReason and toolCalls; the model's
\* fields are read-only.  The calls take turns between two read()s.

\* The variables the second call's handler reads and writes.
SecondState_SharedUsage ==
  [usage |-> usage, actualFinishReason |-> second.actualFinishReason,
   toolCalls |-> second.toolCalls, out |-> second.out]
SecondState ==
  [usage |-> second.usage, actualFinishReason |-> second.actualFinishReason,
   toolCalls |-> second.toolCalls, out |-> second.out]

\* What the gateway sends to the first call and to the second.
FirstFrames ==
  { Frame(TRUE, NoVal, TRUE, <<>>, <<Frag(0, IdOf(0), NameOf(0), TRUE, <<"{">>)>>, NoUsage),
    Frame(TRUE, NoVal, TRUE, <<>>, <<Frag(0, NoVal, NoVal, TRUE, <<"}">>)>>, NoUsage),
    Frame(TRUE, "tool_calls", TRUE, <<>>, <<>>, UsageA) }
SecondFrames ==
  { Frame(TRUE, NoVal, TRUE, <<"h">>, <<>>, NoUsage),
    Frame(TRUE, NoVal, TRUE, <<>>, <<Frag(0, IdOf(0), NameOf(0), TRUE, <<"{", "}">>)>>, NoUsage),
    Frame(TRUE, "length", TRUE, <<>>, <<>>, UsageB) }

\* The second doStream call gets its 2xx response: its start() callback runs.
SecondStart ==
  /\ callPc = "streaming"
  /\ second.pc = "unopened"
  /\ second' = StreamState("reading")
  /\ UNCHANGED <<streamVars, callVars>>

\* The second call's loop body run on a data line that parses to frame f.
SecondDataLine(f) ==
  /\ second.pc = "reading"
  /\ Len(second.wire) < MaxLines
  /\ LET S == ProcessFrame(SecondState, f, Len(second.wire) + 1) IN
       second' = [pc |-> "reading", usage |-> S.usage,
                  actualFinishReason |-> S.actualFinishReason,
                  toolCalls |-> S.toolCalls, out |-> S.out,
                  wire |-> Append(second.wire, f)]
  /\ UNCHANGED <<streamVars, callVars>>

\* The second call's reader.read() resolves with done.
SecondReadDone ==
  /\ second.pc = "reading"
  /\ LET S == EndOfStream(SecondState, Len(second.wire) + 1) IN
       second' = [second EXCEPT !.pc = "closed", !.out = S.out]
  /\ UNCHANGED <<streamVars, callVars>>

NextConcurrent ==
  \/ \E f \in FirstFrames : DataLine(f)
  \/ ReadDone
  \/ SecondStart
  \/ \E f \in SecondFrames : SecondDataLine(f)
  \/ SecondReadDone

SpecConcurrent == Init /\ [][NextConcurrent]_vars

\* ------------------------------------------------- text between tool calls
\* Frames with delta.content "h", "i" or "" next to nothing, to a tool-call
\* fragment or to the finish signal.
TextFrames ==
  { Frame(TRUE, NoVal, TRUE, <<"h">>, <<>>, NoUsage),
    Frame(TRUE, NoVal, TRUE, <<"i">>, <<>>, NoUsage),
    Frame(TRUE, NoVal, TRUE, <<>>, <<>>, NoUsage),
    Frame(TRUE, NoVal, TRUE, <<"h", "i">>,
          <<Frag(0, IdOf(0), NameOf(0), TRUE, <<"{", "}">>)>>, NoUsage),
    Frame(TRUE, NoVal, TRUE, <<>>, <<Frag(0, IdOf(0), NameOf(0), TRUE, <<"{">>)>>, NoUsage),
    Frame(TRUE, "tool_calls", TRUE, <<"i">>, <<>>, NoUsage),
    Frame(TRUE, "stop", FALSE, <<>>, <<>>, NoUsage) }

NextText ==
  \/ \E f \in TextFrames : DataLine(f)
  \/ SkipLine("done")
  \/ ReadDone

SpecText == Init /\ [][NextText]_vars

\* --------------------------------------- id and name in separate fragments
\* Fragments at position 0 that carry the id, the name, both or neither,
\* with the gateway's id and name or with other ones, and argument text
\* that is absent, a prefix, a suffix or whole.
HeaderFragments ==
  { Frag(0, IdOf(0), NameOf(0), FALSE, <<>>),
    Frag(0, IdOf(0), NameOf(0), TRUE, <<"{">>),
    Frag(0, IdOf(0), NoVal, FALSE, <<>>),
    Frag(0, IdOf(0), NoVal, TRUE, <<"{">>),
    Frag(0, NoVal, NameOf(0), FALSE, <<>>),
    Frag(0, "call_9", "search", TRUE, <<"{">>),
    Frag(0, "call_9", NoVal, FALSE, <<>>),
    Frag(0, NoVal, "search", FALSE, <<>>),
    Frag(0, NoVal, NoVal, TRUE, <<"}">>),
    Frag(0, NoVal, NoVal, TRUE, <<"{", "a", "}">>) }
HeaderFrames ==
  {Frame(TRUE, NoVal, TRUE, <<>>, <<tc>>, NoUsage) : tc \in HeaderFragments}
  \cup {Frame(TRUE, "tool_calls", TRUE, <<>>, <<>>, NoUsage)}

NextHeaders ==
  \/ \E f \in HeaderFrames : DataLine(f)
  \/ ReadDone

SpecHeaders == Init /\ [][NextHeaders]_vars

\* ------------------------------------------- tool calls at several positions
\* At every position: a call that opens without arguments, one that opens
\* with a prefix, and the closing continuation; one frame that opens
\* position 1 before position 0; the finish signal.
PositionFragments(p) ==
  { Frag(p, IdOf(p), NameOf(p), FALSE, <<>>),
    Frag(p, IdOf(p), NameOf(p), TRUE, <<"{">>),
    Frag(p, NoVal, NoVal, TRUE, <<"}">>) }
PositionFrames ==
  {Frame(TRUE, NoVal, TRUE, <<>>, <<tc>>, NoUsage) :
     tc \in UNION {PositionFragments(p) : p \in Positions}}
  \cup {Frame(TRUE, NoVal, TRUE, <<>>,
              <<Frag(1, IdOf(1), NameOf(1), TRUE, <<"{">>),
                Frag(0, IdOf(0), NameOf(0), TRUE, <<"{">>)>>, NoUsage),
        Frame(TRUE, "tool_calls", TRUE, <<>>, <<>>, NoUsage)}

NextPositions ==
  \/ \E f \in PositionFrames : DataLine(f)
  \/ ReadDone

SpecPositions == Init /\ [][NextPositions]_vars

\* ------------------------------------------------ lines split over chunks
\* Each chunk is decoded and split at "\n" on its own (no text is carried
\* from one chunk to the next).  A data line that the transport cuts in two
\* is seen as two lines: its head, which either lacks the whole "data: "
\* prefix or has a payload JSON.parse rejects, and its tail, which does not
\* start with "data: ".  Both are recorded in wire with the fields of the
\* frame the gateway sent and kind "head" or "tail".
ChunkFrames ==
  { Frame(TRUE, NoVal, TRUE, <<"h">>, <<>>, NoUsage),
    Frame(TRUE, NoVal, TRUE, <<>>, <<Frag(0, IdOf(0), NameOf(0), TRUE, <<"{">>)>>, NoUsage),
    Frame(TRUE, NoVal, TRUE, <<>>, <<Frag(0, NoVal, NoVal, TRUE, <<"}">>)>>, NoUsage),
    Frame(TRUE, "tool_calls", TRUE, <<>>, <<>>, UsageA) }

\* The last chunk ended inside a line.
AwaitingTail == wire # <<>> /\ wire[Len(wire)].kind = "head"

\* A data line that lies whole in one chunk.
WholeLine(f) ==
  /\ ~AwaitingTail
  /\ DataLine(f)

\* The end of a chunk holds the head of the line of frame f: the line is
\* skipped (no prefix) or its JSON.parse throws and the catch swallows it.
HeadOfLine(f) ==
  /\ pc = "reading"
  /\ ~AwaitingTail
  /\ Len(wire) + 1 < MaxLines
  /\ wire' = Append(wire, [f EXCEPT !.kind = "head"])
  /\ UNCHANGED <<pc, usage, actualFinishReason, toolCalls, out>>
  /\ UNCHANGED <<callVars, second, streamError>>

\* The next chunk starts with the rest of that line: no "data: " prefix.
TailOfLine ==
  /\ pc = "reading"
  /\ AwaitingTail
  /\ wire' = Append(wire, [wire[Len(wire)] EXCEPT !.kind = "tail"])
  /\ UNCHANGED <<pc, usage, actualFinishReason, toolCalls, out>>
  /\ UNCHANGED <<callVars, second, streamError>>

NextChunks ==
  \/ \E f \in ChunkFrames : WholeLine(f)
  \/ \E f \in ChunkFrames : HeadOfLine(f)
  \/ TailOfLine
  \/ ReadDone

SpecChunks == Init /\ [][NextChunks]_vars

\* ------------------------------------------- usage objects, both methods
\* Usage objects the gateway sends: whole, without total_tokens, with only
\* completion_tokens, with a total that is not the sum, with a total of 0.
UpstreamUsages ==
  {UsageA, WireUsage(5, 2, Absent), WireUsage(Absent, 2, Absent),
   WireUsage(5, 0, 9), WireUsage(5, 2, 0)}
UsageCompletions == {Completion("stop", <<"h">>, <<>>, u) : u \in UpstreamUsages}
UsageFrames ==
  {Frame(TRUE, NoVal, TRUE, <<"h">>, <<>>, u) : u \in UpstreamUsages \cup {NoUsage}}
  \cup {Frame(TRUE, "stop", TRUE, <<>>, <<>>, u) : u \in UpstreamUsages}

NextUsage ==
  \/ \E method \in {"doGenerate", "doStream"} : StartCall(method, HelloPrompt)
  \/ \E data \in UsageCompletions : GenerateResponse(data)
  \/ StreamResponse
  \/ \E f \in UsageFrames : DataLine(f)
  \/ ReadDone

SpecUsage == InitConvert /\ [][NextUsage]_vars

\* ------------------------------------------- the transport ends or fails
\* The end of the body and the failure of the transport are events of their
\* own: received.kind turns to "done" or "failed", the pending or the next
\* reader.read() settles accordingly, and the loop of start() reacts.

\* The body ends: read() will resolve with done.
TransportEnds ==
  /\ callPc = "streaming" /\ pc = "reading"
  /\ received.kind = "response"
  /\ received' = [received EXCEPT !.kind = "done"]
  /\ UNCHANGED <<streamVars, second>>
  /\ UNCHANGED <<provider, model, callPc, call, fetches, created, outcome>>

\* The transport fails with e: read() will reject with e.
TransportFails(e) ==
  /\ callPc = "streaming" /\ pc = "reading"
  /\ received.kind = "response"
  /\ received' = [received EXCEPT !.kind = "failed", !.failure = e]
  /\ UNCHANGED <<streamVars, second>>
  /\ UNCHANGED <<provider, model, callPc, call, fetches, created, outcome>>

\* A data line read while the transport is delivering.
LineArrives(f) ==
  /\ received.kind = "response"
  /\ DataLine(f)

\* const { done } = await reader.read(); if (done) { ... }
OnDone ==
  /\ received.kind = "done"
  /\ ReadDone

\* await reader.read() throws the transport's failure.
OnFailure ==
  /\ received.kind = "failed"
  /\ ReadFails(received.failure)

NextTransport ==
  \/ \E f \in ChunkFrames : LineArrives(f)
  \/ TransportEnds
  \/ \E e \in TransportFailures : TransportFails(e)
  \/ OnDone
  \/ OnFailure

\* The continuation of a settled read() is run by the event loop.
SpecTransport ==
  Init /\ [][NextTransport]_vars /\ WF_vars(OnDone) /\ WF_vars(OnFailure)

\* ============================================================ properties
\* -------------------------------------------------------- reading the run
\* The indexes of the events of out that satisfy Test.
Where(Test(_)) == {i \in DOMAIN out : Test(out[i])}

IsType(e, t) == e.type = t
\* The events of tool-call position p, in emission order.
EventsAt(p) == SelectSeq(out, LAMBDA e : e.pos = p)
\* The number of events of type t emitted for position p.
CountAt(p, t) == Cardinality({i \in DOMAIN out : out[i].pos = p /\ out[i].type = t})
CountOf(t) == Cardinality({i \in DOMAIN out : out[i].type = t})

\* The lines whose tool-call fragments reach the tool-call loop.
CarriesFragments(f) == f.kind = "frame" /\ f.hasChoice /\ f.hasDelta
\* The lines that carry a finish signal.
CarriesFinish(f) == f.kind = "frame" /\ f.hasChoice /\ Truthy(f.finish_reason)
FinishLines == {k \in DOMAIN wire : CarriesFinish(wire[k])}
NoFinishUpTo(k) == \A j \in FinishLines : j > k

\* The fragments received at position p from line k on, in arrival order,
\* each with the number of its line.
RECURSIVE FragmentsFrom(_, _)
FragmentsFrom(k, p) ==
  IF k > Len(wire) THEN <<>>
  ELSE LET here == IF CarriesFragments(wire[k])
                     THEN SelectSeq(wire[k].tool_calls, LAMBDA tc : tc.index = p)
                     ELSE <<>>
       IN [i \in 1..Len(here) |-> [tc |-> here[i], at |-> k]] \o FragmentsFrom(k + 1, p)
FragmentsAt(p) == FragmentsFrom(1, p)

\* The accumulator identity (id, name) a fragment announces.
Announced(tc) == [id |-> tc.id, name |-> tc.name]
IsOpener(tc) == Truthy(tc.id) /\ Truthy(tc.name)
NoArguments(tc) == ~tc.hasArgs \/ tc.args = <<>>
IsContinuation(tc) == ~Truthy(tc.id) /\ ~Truthy(tc.name) /\ tc.hasArgs /\ tc.args # <<>>

\* --------------------------------------------------------------------- C1
\* C1: when the transport has signalled normal completion the output holds
\* exactly one finish event, it is the last event and the stream is closed;
\* no finish event is in the output before that.
C1_FinishOnceAndLast ==
  /\ pc = "closed" =>
       /\ out # <<>>
       /\ out[Len(out)].type = "finish"
       /\ CountOf("finish") = 1
  /\ pc # "closed" => CountOf("finish") = 0

\* A completed stream that carried a finish signal and tool-call events.
C1_Witness ==
  /\ pc = "closed"
  /\ FinishLines # {}
  /\ CountOf("tool-call") >= 1
  /\ Len(out) >= 4

\* --------------------------------------------------------------------- C2
\* C2: at most one tool-call event is ever emitted for a tool-call position.
C2_AtMostOneToolCall == \A p \in Positions : CountAt(p, "tool-call") <= 1

\* A position finalized early, that then received another fragment and
\* after it a finish signal.
C2_Witness ==
  \E p \in Positions : \E i \in DOMAIN out :
    /\ out[i].type = "tool-call" /\ out[i].pos = p
    /\ \E x \in DOMAIN FragmentsAt(p) : \E k \in FinishLines :
         out[i].at < FragmentsAt(p)[x].at /\ FragmentsAt(p)[x].at < k

\* --------------------------------------------------------------------- C3
\* C3: for each tool-call position, tool-input-start comes before every
\* tool-input-delta, every tool-input-delta before tool-input-end, and each
\* tool-call has a tool-input-end before it.
C3_InputEventOrder ==
  \A p \in Positions :
    LET E == EventsAt(p) IN
    \A i \in DOMAIN E :
      /\ E[i].type = "tool-input-delta" =>
           \E j \in 1..(i - 1) : E[j].type = "tool-input-start"
      /\ E[i].type = "tool-input-end" =>
           \A j \in DOMAIN E : E[j].type = "tool-input-delta" => j < i
      /\ E[i].type = "tool-call" =>
           \E j \in 1..(i - 1) : E[j].type = "tool-input-end"

\* --------------------------------------------------------------------- C4
\* The four events of a tool call that arrives whole in fragment tc of line k.
WholeCallEvents(tc, p, k) ==
  <<ToolInputStart(Announced(tc), p, k),
    ToolInputDelta(Announced(tc), tc.args, p, k),
    ToolInputEnd(Announced(tc), p, k),
    ToolCall(Announced(tc), JsonValue(tc.args), p, k)>>

IsWhole(f) == IsOpener(f.tc) /\ f.tc.hasArgs /\ JsonParses(f.tc.args)
ArrivesWhole(p) == FragmentsAt(p) # <<>> /\ IsWhole(FragmentsAt(p)[1])

\* C4: a tool call whose first fragment carries id, name and argument text
\* that is complete JSON gets exactly tool-input-start, tool-input-delta,
\* tool-input-end, tool-call, in this order, with the fragment's id and the
\* parsed arguments as input; a closed stream holds one finish after them.
C4_WholeFragment ==
  \A p \in Positions :
    LET fs == FragmentsAt(p) IN
    (fs # <<>> /\ IsWhole(fs[1])) =>
      /\ EventsAt(p) = WholeCallEvents(fs[1].tc, p, fs[1].at)
      /\ pc = "closed" =>
           /\ CountOf("finish") = 1
           /\ \A i \in DOMAIN out : out[i].pos = p => i < Len(out)
           /\ out[Len(out)].type = "finish"

C4_Witness ==
  /\ pc = "closed"
  /\ \E p \in Positions : ArrivesWhole(p) /\ Len(FragmentsAt(p)) >= 2

\* --------------------------------------------------------------------- C5
OpensEmpty(f) == IsOpener(f.tc) /\ NoArguments(f.tc)
OpensWithoutArguments(p) == FragmentsAt(p) # <<>> /\ OpensEmpty(FragmentsAt(p)[1])

RECURSIVE Concat(_, _)
Concat(fs, j) == IF j = 0 THEN <<>> ELSE Concat(fs, j - 1) \o fs[j].tc.args

\* The first fragment at which the accumulated text parses, 0 when none.
FirstParse(fs) ==
  LET J == {j \in DOMAIN fs : JsonParses(Concat(fs, j))} IN
  IF J = {} THEN 0 ELSE CHOOSE j \in J : \A i \in J : j <= i

\* fs is an opener with a non-empty argument prefix and then only
\* continuation fragments, all before any finish signal.
IsSplit(fs) ==
  /\ Len(fs) >= 2
  /\ IsOpener(fs[1].tc) /\ fs[1].tc.hasArgs /\ fs[1].tc.args # <<>>
  /\ \A i \in 2..Len(fs) : IsContinuation(fs[i].tc)
  /\ NoFinishUpTo(fs[Len(fs)].at)
SplitCall(p) == IsSplit(FragmentsAt(p))

\* The events of such a call: j is the fragment where the text first parses.
SplitEvents(fs, p, j) ==
  <<ToolInputStart(Announced(fs[1].tc), p, fs[1].at)>>
  \o [i \in 1..(IF j = 0 THEN Len(fs) ELSE j) |->
        ToolInputDelta(Announced(fs[1].tc), fs[i].tc.args, p, fs[i].at)]
  \o (IF j = 0 THEN <<>>
      ELSE <<ToolInputEnd(Announced(fs[1].tc), p, fs[j].at),
             ToolCall(Announced(fs[1].tc), JsonValue(Concat(fs, j)), p, fs[j].at)>>)

ToolCallsBy(p, k) ==
  Cardinality({i \in DOMAIN out :
                 out[i].type = "tool-call" /\ out[i].pos = p /\ out[i].at <= k})

AnnouncedBefore(p, k) ==
  \E i \in DOMAIN out :
    out[i].type = "tool-input-start" /\ out[i].pos = p /\ out[i].at < k

C9_EndOfStreamFinalizes ==
  (pc = "closed" /\ FinishLines = {}) =>
    /\ \A p \in Positions :
         CountAt(p, "tool-input-start") >= 1 =>
           CountAt(p, "tool-input-end") = 1 /\ CountAt(p, "tool-call") = 1
    /\ out[Len(out)].type = "finish"
    /\ out[Len(out)].finishReason = "stop"
    /\ out[Len(out)].usage = usage

\* -------------------------------------------------------------------- C10
\* The frames that have a choice entry and carry a usage snapshot.
UsageLines == {k \in DOMAIN wire :
                 wire[k].kind = "frame" /\ wire[k].hasChoice /\ wire[k].usage.has}

LastSnapshot ==
  IF UsageLines = {} THEN ZeroUsage
  ELSE LET k == CHOOSE k \in UsageLines : \A j \in UsageLines : j <= k
           u == wire[k].usage
       IN [inputTokens |-> u.prompt_tokens, outputTokens |-> u.completion_tokens,
           totalTokens |-> u.total_tokens]

\* C10: the usage of the finish event is the snapshot of the last frame
\* that carried one, whatever else that frame carries (zeros when none did).
C10_FinishCarriesLastSnapshot ==
  pc = "closed" => out[Len(out)].usage = LastSnapshot

\* --------------------------------------------------------------------- C7
\* The scenario of two interleaved tool calls at positions 0 and 1, each in
\* two chunks: id and name first, the whole argument text second; then a
\* frame with the finish signal, then the end of the body.
CompleteArguments == {<<"{", "}">>, <<"{", "a", "}">>, <<"{", "a", "a", "}">>}
BothArrived == \A p \in {0, 1} : Len(FragmentsAt(p)) = 2

FirstChunk ==
  \E p \in {0, 1} : \E hasArgs \in BOOLEAN :
    /\ FragmentsAt(p) = <<>>
    /\ Deliver(Frame(TRUE, NoVal, TRUE, <<>>,
                     <<Frag(p, IdOf(p), NameOf(p), hasArgs, <<>>)>>, NoUsage))

SecondChunk ==
  \E p \in {0, 1} : \E a \in CompleteArguments : \E id \in {NoVal, IdOf(p)} :
    /\ Len(FragmentsAt(p)) = 1
    /\ Deliver(Frame(TRUE, NoVal, TRUE, <<>>, <<Frag(p, id, NoVal, TRUE, a)>>, NoUsage))

FinishChunk ==
  \E u \in {NoUsage, UsageA} :
    /\ BothArrived
    /\ FinishLines = {}
    /\ Deliver(Frame(TRUE, "tool_calls", TRUE, <<>>, <<>>, u))

EndOfBody ==
  /\ FinishLines # {}
  /\ ReadDone

NextInterleaved == FirstChunk \/ SecondChunk \/ FinishChunk \/ EndOfBody

SpecInterleaved == Init /\ [][NextInterleaved]_vars

\* The position of the k-th tool-input-start event.
StartOrder == [i \in 1..CountOf("tool-input-start") |->
                 SelectSeq(out, LAMBDA e : e.type = "tool-input-start")[i].pos]
\* The positions in the order in which their first fragment arrived.
FirstSightOrder ==
  IF FragmentsAt(0)[1].at < FragmentsAt(1)[1].at THEN <<0, 1>> ELSE <<1, 0>>

\* C7: the scenario emits two tool-input-start in first-sight order, two
\* tool-input-delta, two tool-input-end, two tool-call and one finish.
C7_InterleavedScenario ==
  (pc = "closed" /\ BothArrived) =>
    /\ CountOf("tool-input-start") = 2
    /\ StartOrder = FirstSightOrder
    /\ CountOf("tool-input-delta") = 2
    /\ CountOf("tool-input-end") = 2
    /\ CountOf("tool-call") = 2
    /\ CountOf("finish") = 1


\* -------------------------------------------------------------------- C11
\* A line whose payload fails JSON.parse, or a frame without a choice entry.
Unusable(f) == f.kind = "bad" \/ (f.kind = "frame" /\ ~f.hasChoice)

\* C11: processing a line whose payload fails JSON parsing, or a frame with
\* no choice entry, enqueues no event, leaves the accumulators, the usage
\* and the finish reason as they were and neither errors nor closes the
\* stream, so that what follows runs from the state it would have had
\* without that line.
C11_UnusableFrameIsSkipped ==
  [][(wire' # wire /\ Unusable(wire'[Len(wire')]))
       => UNCHANGED <<pc, usage, actualFinishReason, toolCalls, out>>]_vars

\* An unparseable line and a frame without choices (carrying usage) were
\* processed between a tool call's two fragments, and the call completed.
C11_Witness ==
  /\ Len(wire) >= 3
  /\ Unusable(wire[2])
  /\ wire[2].kind = "frame" => wire[2].usage.has
  /\ pc = "reading"
  /\ \E p \in Positions :
       /\ Len(FragmentsAt(p)) = 2
       /\ FragmentsAt(p)[1].at = 1 /\ FragmentsAt(p)[2].at = 3
       /\ CountAt(p, "tool-input-delta") = 2
       /\ CountAt(p, "tool-call") = 1


\* -------------------------------------------------------------------- C12
\* C12: mapHeliconeFinishReason returns a value for every input and
\* distinguishes case: stop and eos give stop, length and max_tokens give
\* length, content_filter gives content-filter, tool_calls and
\* function_call give tool-calls, and every other input (unknown strings,
\* other spellings, null, undefined) gives other.
C12_FinishReasonMapping ==
  (callPc = "returned" /\ received.kind = "completion") =>
    LET r == received.data.finish_reason
        mapped == outcome.value.finishReason
    IN /\ r \in {"stop", "eos"} => mapped = "stop"
       /\ r \in {"length", "max_tokens"} => mapped = "length"
       /\ r = "content_filter" => mapped = "content-filter"
       /\ r \in {"tool_calls", "function_call"} => mapped = "tool-calls"
       /\ r \notin {"stop", "eos", "length", "max_tokens", "content_filter",
                    "tool_calls", "function_call"} => mapped = "other"

\* doGenerate returned for a finish_reason spelled in upper case.
C12_Witness ==
  /\ callPc = "returned"
  /\ received.data.finish_reason = "TOOL_CALLS"
  /\ outcome.value.finishReason = "other"


\* -------------------------------------------------------------------- C13
\* C13: when the gateway answers doGenerate or doStream with a status
\* outside 2xx the call rejects with a HeliconeError whose data is the error
\* payload (parsed from the body, or synthesized when the body is not JSON)
\* and whose response is the response object received.
C13_ErrorCarriesDataAndResponse ==
  (received.kind = "response" /\ ~received.response.ok) =>
    /\ callPc = "rejected"
    /\ outcome.error.name = "HeliconeError"
    /\ outcome.error.data = ResponseErrorData(call.method, received.response)
    /\ outcome.error.response = received.response.ref

\* -------------------------------------------------------------------- C14
\* C14: when fetch rejects with an Error named AbortError the call rejects
\* with that same object and no HeliconeError is created; when it rejects
\* with anything else the call rejects with a new HeliconeError whose cause
\* is the value fetch rejected with.
C14_CancellationIsNotWrapped ==
  received.kind = "failure" =>
    /\ callPc = "rejected"
    /\ (received.failure.isError /\ received.failure.name = "AbortError") =>
         /\ outcome.error = received.failure
         /\ created = <<>>
    /\ ~(received.failure.isError /\ received.failure.name = "AbortError") =>
         /\ outcome.error.name = "HeliconeError"
         /\ outcome.error.ref # received.failure.ref
         /\ outcome.error.cause = received.failure.ref
         /\ created = <<outcome.error>>

\* doStream was cancelled while it awaited fetch.
C14_Witness ==
  /\ callPc = "rejected"
  /\ call.method = "doStream"
  /\ received.kind = "failure"
  /\ received.failure.ref = "AbortError#1"
  /\ outcome.error.ref = "AbortError#1"


\* ------------------------------------------------- reading a conversation
\* The part types each role of a conversation may carry.
SupportedTypes(role) ==
  CASE role = "user" -> {"text", "file"}
    [] role = "assistant" -> {"text", "reasoning", "tool-call"}
    [] role = "tool" -> {"tool-result"}
    [] OTHER -> {}
SupportedRoles == {"system", "user", "assistant", "tool"}

\* The unsupported roles and part types a conversation contains.
Offending(prompt) ==
  {prompt[t].role : t \in {t \in DOMAIN prompt : prompt[t].role \notin SupportedRoles}}
  \cup UNION {{prompt[t].parts[i].type :
                 i \in {i \in DOMAIN prompt[t].parts :
                          prompt[t].parts[i].type \notin SupportedTypes(prompt[t].role)}} :
              t \in {t \in DOMAIN prompt : prompt[t].role \in SupportedRoles \ {"system"}}}

CallStarted == callPc \notin {"provider", "model"}

\* -------------------------------------------------------------------- C15
\* C15: a call on a conversation that contains an unsupported role or part
\* type, on a model without prompt template, is rejected with the
\* validation error and never passes a request to fetch.
C15_ValidationBeforeTransport ==
  (CallStarted /\ Offending(call.prompt) # {} /\ ~UsesPrompt(model.extraBody)) =>
    /\ callPc = "rejected"
    /\ outcome.error.ref = "ValidationError"
    /\ fetches = <<>>

\* -------------------------------------------------------------------- C16
\* C16: the conversion of a conversation that contains an unsupported role,
\* or a part type not supported in its user, assistant or tool turn, throws
\* an error that names one of the unsupported values.
C16_UnsupportedAlwaysThrows ==
  (CallStarted /\ Offending(call.prompt) # {}) =>
    /\ outcome.kind = "threw"
    /\ outcome.error.ref = "ValidationError"
    /\ outcome.error.names \in Offending(call.prompt)

\* -------------------------------------------------------------------- C17
\* The number of messages a turn of a supported conversation stands for.
MessagesOf(turn) == IF turn.role = "tool" THEN Len(turn.parts) ELSE 1
\* The number of messages of the turns before turn t.
RECURSIVE MessagesBefore(_, _)
MessagesBefore(prompt, t) ==
  IF t = 1 THEN 0 ELSE MessagesBefore(prompt, t - 1) + MessagesOf(prompt[t - 1])

\* C17: for a conversation of supported roles and parts only, the messages
\* follow the order of the turns: one message with the turn's role for each
\* system, user and assistant turn, and for a tool turn one tool message
\* per part, consecutive and in part order, each with the toolCallId and
\* toolName of its own part; nothing else is in the output.
C17_MessagesFollowTurns ==
  (CallStarted /\ call.prompt # <<>> /\ Offending(call.prompt) = {}) =>
    /\ callPc = "fetching"
    /\ "messages" \in fetches[1].body.keys
    /\ LET prompt == call.prompt
           messages == fetches[1].body.messages
       IN /\ Len(messages) = MessagesBefore(prompt, Len(prompt) + 1)
          /\ \A t \in DOMAIN prompt :
               IF prompt[t].role = "tool"
                 THEN \A i \in DOMAIN prompt[t].parts :
                        /\ messages[MessagesBefore(prompt, t) + i].role = "tool"
                        /\ messages[MessagesBefore(prompt, t) + i].tool_call_id
                             = prompt[t].parts[i].toolCallId
                        /\ messages[MessagesBefore(prompt, t) + i].name
                             = prompt[t].parts[i].toolName
                 ELSE messages[MessagesBefore(prompt, t) + 1].role = prompt[t].role

\* The conversion of a two-turn
\* conversation: an assistant turn, then a tool turn with two results.
C17_Witness ==
  /\ callPc = "fetching"
  /\ Len(call.prompt) = 2
  /\ call.prompt[1].role = "assistant"
  /\ call.prompt[2].role = "tool"
  /\ call.prompt[2].parts = <<ToolResultB, ToolResultA>>
  /\ Len(fetches[1].body.messages) = 3


\* -------------------------------------------------------------------- C18
\* The prompt template the model was created with, if any.
TemplateConfigured == Truthy(model.settings.promptId)

\* C18: the body of every request of a model created with a prompt template
\* has prompt_id, has inputs and environment exactly when they were
\* supplied, and has no messages, whatever the conversation; the body of a
\* request of a model without template, for a conversation that is not
\* empty, has messages and no prompt_id.
C18_TemplateReplacesMessages ==
  \A i \in DOMAIN fetches :
    LET body == fetches[i].body IN
    /\ TemplateConfigured =>
         /\ "prompt_id" \in body.keys /\ body.prompt_id = model.settings.promptId
         /\ "messages" \notin body.keys
         /\ "inputs" \in body.keys <=> Truthy(model.settings.inputs)
         /\ "inputs" \in body.keys => body.inputs = model.settings.inputs
         /\ "environment" \in body.keys <=> Truthy(model.settings.environment)
         /\ "environment" \in body.keys => body.environment = model.settings.environment
    /\ (~TemplateConfigured /\ call.prompt # <<>>) =>
         /\ "messages" \in body.keys
         /\ "prompt_id" \notin body.keys

\* A request with a template and inputs but no environment was sent for a
\* conversation that the conversion would have rejected.
C18_Witness ==
  /\ callPc = "fetching"
  /\ model.settings.promptId = "prompt-1"
  /\ Offending(call.prompt) # {}
  /\ fetches[1].body.keys = {"model", "stream", "prompt_id", "inputs"}

\* -------------------------------------------------------------------- C19
\* C19: no request body has a helicone field, whatever the default and the
\* per-call extraBody hold; the metadata of the model's extraBody is in the
\* request headers.
C19_MetadataOnlyInHeaders ==
  \A i \in DOMAIN fetches :
    /\ "helicone" \notin fetches[i].body.keys
    /\ "helicone" \in model.extraBody.keys =>
         /\ Truthy(model.extraBody.helicone.sessionId) =>
              fetches[i].headers.sessionId = model.extraBody.helicone.sessionId
         /\ Truthy(model.extraBody.helicone.userId) =>
              fetches[i].headers.userId = model.extraBody.helicone.userId
         /\ \A k \in PropertyKeys : fetches[i].headers.property[k]
                                      = model.extraBody.helicone.properties[k]
         /\ \A t \in DOMAIN model.extraBody.helicone.tags :
              model.extraBody.helicone.tags[t] \in fetches[i].headers.tags
         /\ fetches[i].headers.cache = model.extraBody.helicone.cache

\* A request was sent by a model with metadata and another extraBody field.
C19_Witness ==
  /\ fetches # <<>>
  /\ "helicone" \in model.extraBody.keys
  /\ "custom" \in model.extraBody.keys
  /\ "custom" \in fetches[1].body.keys
  /\ fetches[1].headers.sessionId = "session-c"

\* -------------------------------------------------------------------- C20
\* The metadata of the provider's default extraBody and of the settings.
DefaultHints == provider.helicone
PerCallHints == model.settings.extraBody.helicone

\* C20: each metadata header has the per-call value when the settings
\* supply the hint, and otherwise the default value when the provider's
\* default extraBody supplies it.
C20_PerCallWinsDefaultsKept ==
  \A i \in DOMAIN fetches :
    LET sent == fetches[i].headers IN
    /\ Truthy(PerCallHints.sessionId) => sent.sessionId = PerCallHints.sessionId
    /\ (~Truthy(PerCallHints.sessionId) /\ Truthy(DefaultHints.sessionId))
         => sent.sessionId = DefaultHints.sessionId
    /\ Truthy(PerCallHints.userId) => sent.userId = PerCallHints.userId
    /\ (~Truthy(PerCallHints.userId) /\ Truthy(DefaultHints.userId))
         => sent.userId = DefaultHints.userId
    /\ \A k \in PropertyKeys :
         /\ PerCallHints.properties[k] # NoVal => sent.property[k] = PerCallHints.properties[k]
         /\ (PerCallHints.properties[k] = NoVal /\ DefaultHints.properties[k] # NoVal)
              => sent.property[k] = DefaultHints.properties[k]
    /\ \A t \in DOMAIN PerCallHints.tags : PerCallHints.tags[t] \in sent.tags
    /\ PerCallHints.tags = <<>> =>
         \A t \in DOMAIN DefaultHints.tags : DefaultHints.tags[t] \in sent.tags
    /\ PerCallHints.cache # NoVal => sent.cache = PerCallHints.cache
    /\ (PerCallHints.cache = NoVal /\ DefaultHints.cache # NoVal)
         => sent.cache = DefaultHints.cache


\* -------------------------------------------------------------------- C21
\* The tools of the call for which the schema conversion throws.
ConversionThrows(tool) == tool.parameters # NoVal /\ ~tool.converts

\* C21: when the schema conversion throws for a tool of a call, the request
\* is still sent and its body has the tool, at the tool's place and under
\* its name, with parameters {type:"object"}.
C21_ConversionFailureFallsBack ==
  (CallStarted /\ \E i \in DOMAIN call.tools : ConversionThrows(call.tools[i])) =>
    /\ Len(fetches) = 1
    /\ "tools" \in fetches[1].body.keys
    /\ Len(fetches[1].body.tools) = Len(call.tools)
    /\ \A i \in DOMAIN call.tools :
         ConversionThrows(call.tools[i]) =>
           /\ fetches[1].body.tools[i].name = call.tools[i].name
           /\ fetches[1].body.tools[i].parameters = "{type:object}"


\* -------------------------------------------------------------------- C22
\* C22: the usage doGenerate returns has inputTokens = prompt_tokens (0 when
\* missing), outputTokens = completion_tokens (0 when missing) and
\* totalTokens = total_tokens when the response supplies it, otherwise
\* inputTokens + outputTokens; {prompt_tokens: 5, completion_tokens: 2}
\* gives a total of 7.
C22_GenerateUsage ==
  (callPc = "returned" /\ received.kind = "completion") =>
    LET sent == received.data.usage
        got == outcome.value.usage
    IN /\ got.inputTokens = (IF sent.prompt_tokens # Absent THEN sent.prompt_tokens ELSE 0)
       /\ got.outputTokens = (IF sent.completion_tokens # Absent THEN sent.completion_tokens
                              ELSE 0)
       /\ got.totalTokens = (IF sent.total_tokens # Absent THEN sent.total_tokens
                             ELSE got.inputTokens + got.outputTokens)
       /\ sent = WireUsage(5, 2, Absent) => got.totalTokens = 7

\* doGenerate returned for a usage object without total_tokens.
C22_Witness ==
  /\ callPc = "returned"
  /\ received.data.usage = WireUsage(5, 2, Absent)
  /\ outcome.value.usage = [inputTokens |-> 5, outputTokens |-> 2, totalTokens |-> 7]


\* -------------------------------------------------------------------- C23
\* The argument text received at position p so far, in arrival order.
ReceivedText(p) == Concat(FragmentsAt(p), Len(FragmentsAt(p)))

\* C23: a completion with a tool call whose arguments are not valid JSON
\* makes doGenerate reject; a stream whose tool-call arguments are not
\* valid JSON is never errored, keeps the text it received in the
\* accumulator, and once the body has ended it is closed with finish as its
\* last event.
C23_MalformedArguments ==
  /\ (received.kind = "completion"
      /\ \E i \in DOMAIN received.data.tool_calls :
           ~JsonParses(received.data.tool_calls[i].arguments))
       => (callPc = "rejected" /\ outcome.kind = "threw" /\ outcome.error.name = "HeliconeError")
  /\ callPc = "streaming" =>
       /\ pc \in {"reading", "closed"}
       /\ \A p \in Positions :
            (FragmentsAt(p) # <<>> /\ ~JsonParses(ReceivedText(p)))
              => Slot(toolCalls, p).arguments = ReceivedText(p)
       /\ pc = "closed" => (out # <<>> /\ out[Len(out)].type = "finish")

\* A stream ended after argument text that never became valid JSON, spread
\* over two fragments and followed by the finish signal.
C23_Witness ==
  /\ callPc = "streaming"
  /\ pc = "closed"
  /\ Len(FragmentsAt(0)) = 2
  /\ ReceivedText(0) # <<>>
  /\ ~JsonParses(ReceivedText(0))
  /\ FinishLines # {}
  /\ out[Len(out)].type = "finish"


\* ------------------------------------------------- C24: concurrent calls
RECURSIVE Alone(_, _)
\* The state of a call that processed the first k lines of w with no other
\* call running.
Alone(w, k) ==
  IF k = 0 THEN [usage |-> ZeroUsage, actualFinishReason |-> "stop",
                 toolCalls |-> <<>>, out |-> <<>>]
  ELSE IF w[k].kind = "frame" THEN ProcessFrame(Alone(w, k - 1), w[k], k)
  ELSE Alone(w, k - 1)
Solo(w, at) ==
  IF at = "closed" THEN EndOfStream(Alone(w, Len(w)), Len(w) + 1) ELSE Alone(w, Len(w))

\* C24: when two streaming calls run on the same model and their reads take
\* turns, each call has emitted exactly the events, and holds exactly the
\* usage, finish reason and accumulators, that it would with the same lines
\* and no other call running.
C24_ConcurrentCallsAreIndependent ==
  /\ pc \in {"reading", "closed"} => CallState = Solo(wire, pc)
  /\ second.pc \in {"reading", "closed"} => SecondState = Solo(second.wire, second.pc)
\* Both calls are in the middle of their streams, each has emitted events,
\* and the second then ends with its own usage while the first goes on.
C24_Witness ==
  /\ pc = "reading" /\ Len(wire) = 2 /\ out # <<>>
  /\ usage.totalTokens = 7
  /\ second.pc = "closed" /\ Len(second.wire) = 3
  /\ second.usage.totalTokens = 9
  /\ \E i \in DOMAIN second.out : second.out[i].type = "tool-call"
  /\ second.out[Len(second.out)].type = "finish"


\* ------------------------------------------------------ C25: text deltas
IsTextDelta(e) == e.type = "text-delta"
HasText(f) == f.kind = "frame" /\ f.hasChoice /\ f.hasDelta /\ f.content # <<>>

\* C25: the text-delta events of a stream are, one for one and in order, the
\* non-empty text fragments of its frames, each with the fragment's text
\* unchanged and all with the same fixed id, whatever tool-call events stand
\* between them.
C25_TextDeltasFollowFragments ==
  LET deltas == SelectSeq(out, IsTextDelta)
      texts == SelectSeq(wire, HasText)
  IN /\ Len(deltas) = Len(texts)
     /\ \A i \in DOMAIN deltas :
          /\ deltas[i].delta = texts[i].content
          /\ deltas[i].id = "text-0"
\* Text, then a frame with text and a whole tool call, then text on the
\* finish frame: three text-delta with tool-call events between them.
C25_Witness ==
  /\ Len(SelectSeq(out, IsTextDelta)) = 3
  /\ \E i, j, k \in DOMAIN out :
       /\ i < j /\ j < k
       /\ out[i].type = "text-delta" /\ out[i].delta = <<"h", "i">>
       /\ out[j].type = "tool-call"
       /\ out[k].type = "text-delta" /\ out[k].delta = <<"i">>


\* -------------------------------------------------------------------- C26
\* C26: every tool-call event comes right after a tool-input-end event with
\* the same id, whether the call was completed early (its arguments parsed,
\* or it had none) or by the finish signal.
C26_ToolCallFollowsInputEnd ==
  \A i \in DOMAIN out :
    out[i].type = "tool-call" =>
      /\ i > 1
      /\ out[i - 1].type = "tool-input-end"
      /\ out[i - 1].id = out[i].id

\* -------------------------------------------------------------------- C27
C27_StartPrecedesToolCall ==
  \A i \in DOMAIN out :
    out[i].type = "tool-call" =>
      /\ Truthy(out[i].id)
      /\ Truthy(out[i].toolName)
      /\ \E j \in 1..(i - 1) :
           /\ out[j].type = "tool-input-start"
           /\ out[j].id = out[i].id
           /\ out[j].toolName = out[i].toolName
C27_IdAndNameKept ==
  \A p \in Positions :
    /\ Truthy(Slot(toolCalls, p).id) => Slot(toolCalls', p).id = Slot(toolCalls, p).id
    /\ Truthy(Slot(toolCalls, p).name) => Slot(toolCalls', p).name = Slot(toolCalls, p).name

\* C27: every tool-call event has a non-empty toolCallId and toolName and
\* comes after a tool-input-start event with that id and that toolName; and
\* no step changes an accumulator's id or name once it is non-empty.
C27_ToolCallMatchesItsStart ==
  []C27_StartPrecedesToolCall /\ [][C27_IdAndNameKept]_vars
\* A tool call was sent and a later fragment at its position carried another
\* id and another name: the accumulator still has the first ones.
C27_Witness ==
  /\ \E i \in DOMAIN out : out[i].type = "tool-call" /\ out[i].id = IdOf(0)
  /\ \E x \in DOMAIN FragmentsAt(0) :
       /\ x > 1
       /\ FragmentsAt(0)[x].tc.id = "call_9"
       /\ FragmentsAt(0)[x].tc.name = "search"
  /\ Slot(toolCalls, 0).id = IdOf(0)
  /\ Slot(toolCalls, 0).name = NameOf(0)

\* -------------------------------------------------------------------- C28
\* The line just processed carries a fragment at position p.
LastLineHas(w, p) ==
  /\ w # <<>>
  /\ CarriesFragments(w[Len(w)])
  /\ \E i \in DOMAIN w[Len(w)].tool_calls : w[Len(w)].tool_calls[i].index = p
C28_Step ==
  \A p \in Positions :
    (Slot(toolCalls, p).sent /\ Len(wire') = Len(wire) + 1 /\ LastLineHas(wire', p))
      => \A i \in (Len(out) + 1)..Len(out') : out'[i].pos # p

\* C28: a fragment at a position whose accumulator is finalized enqueues no
\* event for that position, whatever id, name or argument text it carries.
C28_FinalizedIgnoresFragments == [][C28_Step]_vars
\* A tool call was sent, and afterwards its position received a fragment with
\* another id, another name and argument text.
C28_Witness ==
  \E i \in DOMAIN out : \E x \in DOMAIN FragmentsAt(0) :
    /\ out[i].type = "tool-call" /\ out[i].pos = 0
    /\ FragmentsAt(0)[x].at > out[i].at
    /\ FragmentsAt(0)[x].tc.id = "call_9"
    /\ FragmentsAt(0)[x].tc.name = "search"
    /\ FragmentsAt(0)[x].tc.args # <<>>
    /\ Slot(toolCalls, 0).arguments # <<>>

\* -------------------------------------------------------------------- C29
\* C29: every accumulator that holds a non-empty id and a non-empty name has
\* had its tool-input-start emitted, in whichever order and fragments the id
\* and the name arrived.
C29_IdAndNameAreAnnounced ==
  \A p \in Positions :
    LET c == Slot(toolCalls, p) IN
    (c.live /\ Truthy(c.id) /\ Truthy(c.name))
      => (c.inputStarted /\ CountAt(p, "tool-input-start") = 1)

\* -------------------------------------------------------------------- C30
\* C30: once the stream is closed, the input of every tool-call event is {}
\* when its position received no argument text, and the JSON value of all
\* the argument text received at its position, in arrival order, when that
\* text is JSON, also when the opening fragment had id and name and empty or
\* absent arguments.
C30_InputIsAllArguments ==
  pc = "closed" =>
    \A i \in DOMAIN out :
      out[i].type = "tool-call" =>
        LET text == ReceivedText(out[i].pos) IN
        /\ text = <<>> => out[i].input = EmptyObject
        /\ JsonParses(text) => out[i].input = JsonValue(text)


\* -------------------------------------------------------------------- C31
\* The delta fields of the tool-input-delta events of o with the given id,
\* concatenated in order.
RECURSIVE DeltaText(_, _)
DeltaText(o, id) ==
  IF o = <<>> THEN <<>>
  ELSE (IF Head(o).type = "tool-input-delta" /\ Head(o).id = id THEN Head(o).delta ELSE <<>>)
       \o DeltaText(Tail(o), id)
\* Each tool-call enqueued by the step has, in its tool-input-delta events,
\* the argument text its accumulator holds.
C31_Step ==
  \A i \in (Len(out) + 1)..Len(out') :
    out'[i].type = "tool-call" =>
      DeltaText(out', out'[i].id) = Slot(toolCalls', out'[i].pos).arguments

\* C31: when a tool call is finalized, the delta fields of the
\* tool-input-delta events emitted for its id, concatenated, are the
\* argument text of its accumulator, also when argument text arrived before
\* the call was announced.
C31_DeltasAreTheArguments == [][C31_Step]_vars


\* -------------------------------------------------------------------- C32
\* The lines of w with the fragments of the other positions taken out.
OnlyPosition(w, p) ==
  [k \in DOMAIN w |->
     [w[k] EXCEPT !.tool_calls = SelectSeq(@, LAMBDA tc : tc.index = p)]]

\* C32: the events of a position, and their order, are those of the stream
\* that carries the same lines without the fragments of the other positions,
\* whatever the order in which the positions were first seen.
C32_PositionsAreIndependent ==
  \A p \in Positions :
    EventsAt(p) =
      SelectSeq(Solo(OnlyPosition(wire, p), pc).out, LAMBDA e : e.pos = p)
\* Position 1 was seen first, position 0 opened next, and position 1 was
\* then completed by its continuation.
C32_Witness ==
  LET f0 == FragmentsAt(0)
      f1 == FragmentsAt(1)
  IN /\ Len(f0) = 1 /\ Len(f1) = 2
     /\ f1[1].at < f0[1].at /\ f0[1].at < f1[2].at
     /\ CountAt(1, "tool-call") = 1
     /\ CountAt(0, "tool-input-start") = 1


\* -------------------------------------------------------------------- C33
\* The data lines the gateway sent, of which w is a delivery: the lines
\* delivered whole, and the lines whose tail has arrived.
GatewayLines(w) ==
  LET done == SelectSeq(w, LAMBDA l : l.kind # "head")
  IN [k \in DOMAIN done |->
        IF done[k].kind = "tail" THEN [done[k] EXCEPT !.kind = "frame"] ELSE done[k]]
\* The events of o without the number of the line that produced them.
Unnumbered(o) == [i \in DOMAIN o |-> [o[i] EXCEPT !.at = 0]]

\* C33: the events emitted are those of the same data lines delivered one
\* whole line at a time, however the transport cut the lines into chunks.
C33_ChunkingDoesNotMatter ==
  ~AwaitingTail =>
    Unnumbered(out) = Unnumbered(Solo(GatewayLines(wire), pc).out)


\* -------------------------------------------------------------------- C34
\* The reason the stream should report: the mapping of the finish signal of
\* the last line that carried one, stop when no line did.
ReasonToReport ==
  IF FinishLines = {} THEN "stop"
  ELSE LET last == CHOOSE k \in FinishLines : \A j \in FinishLines : j <= k
       IN mapHeliconeFinishReason(wire[last].finish_reason)

\* C34: the running finish reason is the mapping of the last finish signal
\* received (stop before any), frames after a finish signal leave it alone,
\* and the finish event of a closed stream carries it.
C34_FinishReasonIsLastSignal ==
  /\ actualFinishReason = ReasonToReport
  /\ pc = "closed" => out[Len(out)].finishReason = ReasonToReport
\* Two different finish signals and then a frame without one: the finish
\* event carries the mapping of the second signal.
C34_Witness ==
  /\ pc = "closed"
  /\ Len(wire) = 3
  /\ FinishLines = {1, 2}
  /\ wire[1].finish_reason = "tool_calls"
  /\ wire[2].finish_reason = "length"
  /\ out[Len(out)].finishReason = "length"


\* -------------------------------------------------------------------- C35
\* The usage object of the last line that carried one.
LastUsageObject ==
  wire[CHOOSE k \in UsageLines : \A j \in UsageLines : j <= k].usage

\* C35: doGenerate returns, and the finish event of a closed stream carries,
\* the same usage for the same upstream usage object: the total falls back
\* to input + output when the object has no total_tokens.
C35_StreamUsageAsGenerate ==
  /\ (callPc = "returned" /\ received.kind = "completion")
       => outcome.value.usage = GenerateUsage(received.data.usage)
  /\ (callPc = "streaming" /\ pc = "closed" /\ UsageLines # {})
       => out[Len(out)].usage = GenerateUsage(LastUsageObject)


\* -------------------------------------------------------------------- C36
\* C36: when reading the body fails, the stream is errored with the very
\* value read() rejected with and holds no finish event; a stream that is
\* not errored carries no error.
C36_ReadFailureErrorsTheStream ==
  /\ pc = "errored" =>
       /\ received.kind = "failed"
       /\ streamError = received.failure
       /\ streamError # NoError
       /\ CountOf("finish") = 0
  /\ pc # "errored" => streamError = NoError
\* The transport failed after a tool call was announced and the finish
\* signal had arrived.
C36_Witness ==
  /\ pc = "errored"
  /\ streamError.name = "AbortError"
  /\ FinishLines # {}
  /\ CountOf("tool-input-start") = 1
  /\ CountOf("tool-call") = 1

\* -------------------------------------------------------------------- C37
Settled == received.kind \in {"done", "failed"}
Ended == pc \in {"closed", "errored"}
NothingAfterTheEnd == Ended => (pc' = pc /\ out' = out /\ wire' = wire /\ toolCalls' = toolCalls)

\* C37: once the transport has signalled the end of the body or failed, the
\* stream gets closed or errored; and once it is, no line is processed and
\* no event is enqueued.
C37_StreamTerminates ==
  /\ Settled ~> Ended
  /\ [][NothingAfterTheEnd]_vars
\* A stream closed after the end of a body that carried lines.
C37_Witness ==
  /\ pc = "closed"
  /\ received.kind = "done"
  /\ Len(wire) = MaxLines
  /\ out[Len(out)].type = "finish"


\* -------------------------------------------------------------------- C38
\* C38: every request body of doStream has stream true, every request body
\* of doGenerate has stream false, and its model is the model id of the
\* call, whatever fields extraBody holds.
C38_StreamFlagAndModel ==
  \A i \in DOMAIN fetches :
    /\ fetches[i].body.stream = (IF call.method = "doStream" THEN "true" ELSE "false")
    /\ fetches[i].body.model = model.modelId

====
